---- MODULE Spec2Model ----
(***************************************************************************)
(* Verification model of the 3D-to-2D cloth flattening pipeline            *)
(* (willardbruce11-lab/3Dto2D).                                            *)
(*                                                                         *)
(* Conventions.  Vertex indices are the program's (0-based).  Face indices *)
(* are positions in a TLA+ sequence, so face k of the model is face k-1 of *)
(* the program.  An edge key "a_b" (a < b) is the pair <<a, b>>.  A JS Set *)
(* or Map whose iteration order the program depends on is a sequence in    *)
(* insertion order; one whose order is irrelevant is a set.                *)
(***************************************************************************)
EXTENDS Integers, Sequences, FiniteSets, TLC

VARIABLES
    segIn,      \* input of FloodSegmenter.segmentWithSeams: mesh, seamEdges, options
    segOut,     \* its return value (list of sub-meshes)
    segPc,      \* "input" before the call, "done" after it
    app,        \* fields of ClothFlattenerApp
    flat,       \* locals of a running flattenMesh: position, patch index, patterns
    cutIn,      \* arguments of MeshScissor.cutAlongEdges
    cutOut,     \* its return value
    cutPc,      \* "input" before the call, "done" after it
    extractor,  \* fields of a SeamExtractor
    seamPc,     \* the extractor's last completed call
    seamRuns,   \* what the caller keeps: how far its run (setMesh, extractRedVertices,
                \* connectRedVertices) has come, the threshold it passed, and the
                \* result of its last run per threshold on the current mesh
    weldIn,     \* the loaded mesh data given to the weld step of segmentParts
    weldOut,    \* the welded mesh with its remapped colours
    weldPc,     \* "input" before the weld step, "done" after it
    packIn,     \* the pattern list given to arrangePatterns
    packOut,    \* the list after arrangePatterns has moved the patterns
    packPc,     \* "input" before the call, "done" after it
    relaxIn,    \* mesh, initial UVs and options given to relaxDifferentiated
    relax,      \* its locals: positions, velocities, iteration, damping
    relaxPc,    \* "input" before the call, "loop" inside the loop, "done" after it
    mergeIn,    \* a mesh and a tolerance given to mergeVertices
    mergeOut,   \* the result of welding mergeIn
    mergeAgain, \* the result of welding mergeOut with the same tolerance
    mergePc,    \* "input", then "once" and "twice" after the two calls
    repairIn,   \* the patches and minFaces given to TopologyRepair.repairAll
    repairSt,   \* its locals: the index of the next patch and the results so far
    repairPc,   \* "loop" inside the loop of repairAll, "done" after it
    bridgeIn,   \* a cylinder given to TopologyRepair.repairCylinder
    bridgeSt,   \* its locals: the loops, the two samples and the bridge
    bridgePc,   \* the step repairCylinder has reached
    unfoldIn,   \* a patch given to BFSUnfolder.compute
    unfoldSt,   \* its locals: uvs, visitedVerts, visitedFaces and the queue
    unfoldPc    \* the step compute has reached

segVars == <<segIn, segOut, segPc>>
appVars == <<app, flat>>
cutVars == <<cutIn, cutOut, cutPc>>
seamVars == <<extractor, seamPc, seamRuns>>
weldVars == <<weldIn, weldOut, weldPc>>
packVars == <<packIn, packOut, packPc>>
relaxVars == <<relaxIn, relax, relaxPc>>
mergeVars == <<mergeIn, mergeOut, mergeAgain, mergePc>>
repairVars == <<repairIn, repairSt, repairPc>>
bridgeVars == <<bridgeIn, bridgeSt, bridgePc>>
unfoldVars == <<unfoldIn, unfoldSt, unfoldPc>>
vars == <<segIn, segOut, segPc, app, flat, cutIn, cutOut, cutPc, extractor, seamPc, seamRuns,
          weldIn, weldOut, weldPc,
          packIn, packOut, packPc,
          relaxIn, relax, relaxPc,
          mergeIn, mergeOut, mergeAgain, mergePc,
          repairIn, repairSt, repairPc,
          bridgeIn, bridgeSt, bridgePc,
          unfoldIn, unfoldSt, unfoldPc>>

\* value of a variable that a specification of another component does not use
Unused == "unused"

SegUnused == segIn = Unused /\ segOut = Unused /\ segPc = Unused
AppUnused == app = Unused /\ flat = Unused
CutUnused == cutIn = Unused /\ cutOut = Unused /\ cutPc = Unused
SeamUnused == extractor = Unused /\ seamPc = Unused /\ seamRuns = Unused
WeldUnused == weldIn = Unused /\ weldOut = Unused /\ weldPc = Unused
PackUnused == packIn = Unused /\ packOut = Unused /\ packPc = Unused
RelaxUnused == relaxIn = Unused /\ relax = Unused /\ relaxPc = Unused
MergeUnused == mergeIn = Unused /\ mergeOut = Unused /\ mergeAgain = Unused /\ mergePc = Unused
RepairUnused == repairIn = Unused /\ repairSt = Unused /\ repairPc = Unused
BridgeUnused == bridgeIn = Unused /\ bridgeSt = Unused /\ bridgePc = Unused
UnfoldUnused == unfoldIn = Unused /\ unfoldSt = Unused /\ unfoldPc = Unused

(***************************************************************************)
(* Generic helpers                                                         *)
(***************************************************************************)
Range(s) == {s[i] : i \in 1..Len(s)}

Max2(a, b) == IF a > b THEN a ELSE b

\* position of the first occurrence of x in s (0 if absent): Array.indexOf / Map lookup
RECURSIVE IndexOfFrom(_, _, _)
IndexOfFrom(s, x, i) ==
    IF i > Len(s) THEN 0
    ELSE IF s[i] = x THEN i ELSE IndexOfFrom(s, x, i + 1)

IndexOf(s, x) == IndexOfFrom(s, x, 1)

\* ascending enumeration of a finite set of integers
RECURSIVE SortedSeq(_)
SortedSeq(S) ==
    IF S = {} THEN <<>>
    ELSE LET m == CHOOSE x \in S : \A y \in S : x <= y
         IN <<m>> \o SortedSeq(S \ {m})

\* append the elements of t that s does not hold yet (Set.add in iteration order)
AddAll(s, t) ==
    LET u == s \o t
        firsts == SelectSeq([i \in 1..Len(u) |-> i],
                            LAMBDA i : i <= Len(s) \/ \A j \in 1..(i - 1) : u[j] # u[i])
    IN [k \in 1..Len(firsts) |-> u[firsts[k]]]

\* concatenation of a sequence of sequences
RECURSIVE Flatten(_)
Flatten(ss) == IF ss = <<>> THEN <<>> ELSE Head(ss) \o Flatten(Tail(ss))

\* stable insertion of x into a list kept in descending order of length
RECURSIVE InsertByLenDesc(_, _)
InsertByLenDesc(s, x) ==
    IF s = <<>> THEN <<x>>
    ELSE IF Len(Head(s)) >= Len(x) THEN <<Head(s)>> \o InsertByLenDesc(Tail(s), x)
    ELSE <<x>> \o s

\* Array.prototype.sort((a, b) => b.length - a.length): stable, descending
RECURSIVE SortByLenDesc(_)
SortByLenDesc(s) ==
    IF s = <<>> THEN <<>>
    ELSE InsertByLenDesc(SortByLenDesc(SubSeq(s, 1, Len(s) - 1)), s[Len(s)])

(***************************************************************************)
(* Mesh topology shared by every stage                                     *)
(***************************************************************************)
EdgeKey(v1, v2) == IF v1 < v2 THEN <<v1, v2>> ELSE <<v2, v1>>

\* the three edges of a face in the order i = 0, 1, 2 of the program's loops
FaceEdges(face) ==
    <<EdgeKey(face[1], face[2]), EdgeKey(face[2], face[3]), EdgeKey(face[3], face[1])>>

FaceVerts(face) == {face[1], face[2], face[3]}

MeshEdges(faces) == UNION {Range(FaceEdges(faces[f])) : f \in 1..Len(faces)}

\* keys of the edge->faces Map in insertion order
EdgeOrder(faces) == AddAll(<<>>, Flatten([f \in 1..Len(faces) |-> FaceEdges(faces[f])]))

\* value of the edge->faces Map at e: the faces using e, in face order
EdgeFaces(faces, e) ==
    SelectSeq([f \in 1..Len(faces) |-> f], LAMBDA f : e \in Range(FaceEdges(faces[f])))

\* the directed edges (v1, v2) of the faces in the order the program's loops meet them
FaceSlots(face) == <<<<face[1], face[2]>>, <<face[2], face[3]>>, <<face[3], face[1]>>>>

Slots(faces) == Flatten([f \in 1..Len(faces) |-> FaceSlots(faces[f])])

\* squared Euclidean distance of two points: the program compares Math.sqrt of it,
\* which orders pairs of points the same way
Dist2(p, q) ==
    (q[1] - p[1]) * (q[1] - p[1]) + (q[2] - p[2]) * (q[2] - p[2]) + (q[3] - p[3]) * (q[3] - p[3])

\* breadth-first visit (queue.shift) over adj, a function from nodes to neighbour
\* lists: the nodes in the order they leave the queue
RECURSIVE BfsRun(_, _, _, _)
BfsRun(adj, queue, visited, out) ==
    IF queue = <<>> THEN out
    ELSE LET v == Head(queue)
             fresh == AddAll(<<>>, SelectSeq(adj[v], LAMBDA w : w \notin visited))
         IN BfsRun(adj, Tail(queue) \o fresh, visited \cup Range(fresh), Append(out, v))

\* the components of adj in the order their first node appears in keys
RECURSIVE BfsComponents(_, _, _, _)
BfsComponents(adj, keys, visited, out) ==
    IF keys = <<>> THEN out
    ELSE IF Head(keys) \in visited THEN BfsComponents(adj, Tail(keys), visited, out)
    ELSE LET comp == BfsRun(adj, <<Head(keys)>>, {Head(keys)}, <<>>)
         IN BfsComponents(adj, Tail(keys), visited \cup Range(comp), Append(out, comp))

(***************************************************************************)
(* FloodSegmenter                                                          *)
(***************************************************************************)
\* faces holding at least one seam edge (a Set filled in face order)
collectBoundaryFaces(mesh, seamEdges) ==
    {f \in 1..Len(mesh.faces) : \E i \in 1..3 : FaceEdges(mesh.faces[f])[i] \in seamEdges}

\* adjacency[f]: the faces sharing with f an edge used by exactly two faces, in the
\* iteration order of the edge->faces Map
buildFaceAdjacency(mesh) ==
    LET faces == mesh.faces
        eo == EdgeOrder(faces)
        edgeToFaces == [e \in Range(eo) |-> EdgeFaces(faces, e)]
        two == SelectSeq(eo, LAMBDA e : Len(edgeToFaces[e]) = 2)
    IN [f \in 1..Len(faces) |->
          LET mine == SelectSeq(two, LAMBDA e : f = edgeToFaces[e][1] \/ f = edgeToFaces[e][2])
          IN [k \in 1..Len(mine) |->
                LET fs == edgeToFaces[mine[k]]
                IN [neighborIdx |-> IF fs[1] = f THEN fs[2] ELSE fs[1],
                    sharedEdge |-> mine[k]]]]

\* mutant: the neighbour loop stops at the first visited or walled neighbour (a
\* break where the program has continue)
RECURSIVE FloodNeighboursBreak(_, _, _, _)
FloodNeighboursBreak(nbs, seamEdges, st, k) ==
    IF k > Len(nbs) THEN st
    ELSE LET nb == nbs[k]
         IN IF st.visited[nb.neighborIdx] # 0 \/ nb.sharedEdge \in seamEdges
            THEN st
            ELSE FloodNeighboursBreak(nbs, seamEdges,
                    [visited |-> [st.visited EXCEPT ![nb.neighborIdx] = 1],
                     queue |-> Append(st.queue, nb.neighborIdx),
                     island |-> st.island], k + 1)

\* the inner loop of the flood fill over adjacency[faceIdx], from neighbour k on
RECURSIVE FloodNeighbours(_, _, _, _)
FloodNeighbours(nbs, seamEdges, st, k) ==
    IF k > Len(nbs) THEN st
    ELSE LET nb == nbs[k]
         IN IF st.visited[nb.neighborIdx] # 0 \/ nb.sharedEdge \in seamEdges
            THEN FloodNeighbours(nbs, seamEdges, st, k + 1)
            ELSE FloodNeighbours(nbs, seamEdges,
                    [visited |-> [st.visited EXCEPT ![nb.neighborIdx] = 1],
                     queue |-> Append(st.queue, nb.neighborIdx),
                     island |-> st.island], k + 1)

\* mutant: the drain handles the start face only (an if where the program has while)
FloodDrainOnce(adjacency, seamEdges, st) ==
    IF st.queue = <<>> THEN st
    ELSE LET faceIdx == st.queue[Len(st.queue)]
             popped == [visited |-> st.visited,
                        queue |-> SubSeq(st.queue, 1, Len(st.queue) - 1),
                        island |-> Append(st.island, faceIdx)]
         IN FloodNeighbours(adjacency[faceIdx], seamEdges, popped, 1)

\* while (queue.length > 0): pop the last face, add it to the island, push neighbours
RECURSIVE FloodDrain(_, _, _)
FloodDrain(adjacency, seamEdges, st) ==
    IF st.queue = <<>> THEN st
    ELSE LET faceIdx == st.queue[Len(st.queue)]
             popped == [visited |-> st.visited,
                        queue |-> SubSeq(st.queue, 1, Len(st.queue) - 1),
                        island |-> Append(st.island, faceIdx)]
         IN FloodDrain(adjacency, seamEdges,
                       FloodNeighbours(adjacency[faceIdx], seamEdges, popped, 1))

\* the loop over startFace
RECURSIVE FloodFrom(_, _, _, _, _, _)
FloodFrom(adjacency, seamEdges, visited, startFace, faceCount, islands) ==
    IF startFace > faceCount THEN islands
    ELSE IF visited[startFace] # 0
    THEN FloodFrom(adjacency, seamEdges, visited, startFace + 1, faceCount, islands)
    ELSE LET st == FloodDrain(adjacency, seamEdges,
                      [visited |-> [visited EXCEPT ![startFace] = 1],
                       queue |-> <<startFace>>, island |-> <<>>])
         IN FloodFrom(adjacency, seamEdges, st.visited, startFace + 1, faceCount,
                      IF st.island # <<>> THEN Append(islands, st.island) ELSE islands)

\* mutant: the islands are returned in the order the fill found them
floodFillUnsorted(mesh, adjacency, seamEdges, boundaryFaces) ==
    LET faceCount == Len(mesh.faces)
        visited == [f \in 1..faceCount |-> IF f \in boundaryFaces THEN 2 ELSE 0]
    IN FloodFrom(adjacency, seamEdges, visited, 1, faceCount, <<>>)

\* islands of non-boundary faces, largest first
floodFillExcludingBoundary(mesh, adjacency, seamEdges, boundaryFaces) ==
    LET faceCount == Len(mesh.faces)
        visited == [f \in 1..faceCount |-> IF f \in boundaryFaces THEN 2 ELSE 0]
    IN SortByLenDesc(FloodFrom(adjacency, seamEdges, visited, 1, faceCount, <<>>))

\* number of entries of s equal to x
CountOf(s, x) == Cardinality({i \in 1..Len(s) : s[i] = x})

\* the patch with the most votes among the neighbours of a face, the first one
\* inserted into patchVotes winning a tie; 0 when no neighbour has a patch
BestPatch(nbs, faceToPatch) ==
    LET pids == SelectSeq([k \in 1..Len(nbs) |-> faceToPatch[nbs[k].neighborIdx]],
                          LAMBDA p : p # 0)
        keys == AddAll(<<>>, pids)
    IN IF keys = <<>> THEN 0
       ELSE LET maxVotes == CHOOSE m \in {CountOf(pids, p) : p \in Range(keys)} :
                               \A p \in Range(keys) : CountOf(pids, p) <= m
                first == CHOOSE i \in 1..Len(keys) :
                             /\ CountOf(pids, keys[i]) = maxVotes
                             /\ \A j \in 1..(i - 1) : CountOf(pids, keys[j]) < maxVotes
            IN keys[first]

\* the assignments of one round applied in order
RECURSIVE ApplyAdds(_, _)
ApplyAdds(st, toAdd) ==
    IF toAdd = <<>> THEN st
    ELSE LET item == Head(toAdd)
         IN ApplyAdds(
              [islands |-> [st.islands EXCEPT ![item.bestPatchId] = Append(@, item.faceIdx)],
               faceToPatch |-> [st.faceToPatch EXCEPT ![item.faceIdx] = item.bestPatchId],
               remaining |-> st.remaining \ {item.faceIdx}],
              Tail(toAdd))

\* the rounds of the vote: at most 5, stopping when a round assigns nothing
RECURSIVE AssignRounds(_, _, _)
AssignRounds(adjacency, st, iter) ==
    IF st.remaining = {} \/ iter >= 5 THEN st
    ELSE LET cand == SortedSeq(st.remaining)
             voted == SelectSeq(cand, LAMBDA f : BestPatch(adjacency[f], st.faceToPatch) # 0)
             toAdd == [k \in 1..Len(voted) |->
                          [faceIdx |-> voted[k],
                           bestPatchId |-> BestPatch(adjacency[voted[k]], st.faceToPatch)]]
         IN IF toAdd = <<>> THEN st
            ELSE AssignRounds(adjacency, ApplyAdds(st, toAdd), iter + 1)

\* the islands after the boundary faces have joined a neighbouring patch
assignBoundaryFacesByAdjacency(adjacency, islands, boundaryFaces) ==
    LET faceToPatch == [f \in DOMAIN adjacency |->
                           IF \E p \in 1..Len(islands) : f \in Range(islands[p])
                           THEN CHOOSE p \in 1..Len(islands) : f \in Range(islands[p])
                           ELSE 0]
    IN AssignRounds(adjacency,
                    [islands |-> islands, faceToPatch |-> faceToPatch,
                     remaining |-> boundaryFaces], 0).islands

NullSubMesh ==
    [vertices |-> <<>>, faces |-> <<>>, localToGlobal |-> <<>>, originalFaceIndices |-> <<>>]

\* mutant: only the first vertex of the face is tested
hasRedVertexFirstOnly(face, redVerticesSet) == face[1] \in redVerticesSet

hasRedVertex(face, redVerticesSet) == \E i \in 1..3 : face[i] \in redVerticesSet

\* the sub-mesh of the faces of faceIndices that touch no red vertex (null if none)
buildSubMeshWithKerf(mesh, faceIndices, redVerticesSet) ==
    LET cleanFaceIndices ==
            SelectSeq(faceIndices, LAMBDA f : ~hasRedVertex(mesh.faces[f], redVerticesSet))
        usedVertices ==
            AddAll(<<>>, Flatten([k \in 1..Len(cleanFaceIndices) |-> mesh.faces[cleanFaceIndices[k]]]))
    IN IF cleanFaceIndices = <<>> THEN NullSubMesh
       ELSE [vertices |-> [l \in 1..Len(usedVertices) |-> mesh.vertices[usedVertices[l] + 1]],
             faces |-> [k \in 1..Len(cleanFaceIndices) |->
                          [i \in 1..3 |-> IndexOf(usedVertices, mesh.faces[cleanFaceIndices[k]][i]) - 1]],
             localToGlobal |-> usedVertices,
             originalFaceIndices |-> cleanFaceIndices]

\* step 6 of segmentWithSeams for one island: the sub-mesh with its red-vertex record
IslandSubMesh(mesh, faceIndices, redSet) ==
    LET internalRedVertices ==
            {v \in redSet : \E k \in 1..Len(faceIndices) : v \in FaceVerts(mesh.faces[faceIndices[k]])}
        subMesh == buildSubMeshWithKerf(mesh, faceIndices, redSet)
    IN [vertices |-> subMesh.vertices, faces |-> subMesh.faces,
        localToGlobal |-> subMesh.localToGlobal,
        originalFaceIndices |-> subMesh.originalFaceIndices,
        internalRedVertices |-> internalRedVertices]

\* the islands the segmenter works on after the vote (steps 1-4)
SegIslands(mesh, wallSet, assignBoundaryFaces) ==
    LET boundaryFaces == collectBoundaryFaces(mesh, wallSet)
        adjacency == buildFaceAdjacency(mesh)
        islands == floodFillExcludingBoundary(mesh, adjacency, wallSet, boundaryFaces)
    IN IF assignBoundaryFaces /\ Len(islands) > 0
       THEN assignBoundaryFacesByAdjacency(adjacency, islands, boundaryFaces)
       ELSE islands

\* mutant: the size filter keeps only islands strictly above minFaces
ValidIslandsStrict(islands, minFaces) == SelectSeq(islands, LAMBDA island : Len(island) > minFaces)

\* islands kept by the size filter (step 5)
ValidIslands(islands, minFaces) == SelectSeq(islands, LAMBDA island : Len(island) >= minFaces)

\* mutant: the sub-mesh left by the kerf is returned without the second size test
segmentWithSeamsNoRecheck(mesh, seamEdges, minFaces, assignBoundaryFaces, redVertices) ==
    LET validIslands == ValidIslands(SegIslands(mesh, seamEdges, assignBoundaryFaces), minFaces)
        built == [idx \in 1..Len(validIslands) |-> IslandSubMesh(mesh, validIslands[idx], redVertices)]
    IN SelectSeq(built, LAMBDA subMesh : subMesh.faces # <<>>)

segmentWithSeams(mesh, seamEdges, minFaces, assignBoundaryFaces, redVertices) ==
    LET validIslands == ValidIslands(SegIslands(mesh, seamEdges, assignBoundaryFaces), minFaces)
        built == [idx \in 1..Len(validIslands) |-> IslandSubMesh(mesh, validIslands[idx], redVertices)]
    IN SelectSeq(built, LAMBDA subMesh : subMesh.faces # <<>> /\ Len(subMesh.faces) >= minFaces)

\* FloodSegmenter.segment: the walls are the edges with two red endpoints
RedEdges(faces, redSet) == {e \in MeshEdges(faces) : e[1] \in redSet /\ e[2] \in redSet}

(***************************************************************************)
(* TopologyRepair                                                          *)
(***************************************************************************)
\* adjacency lists of the boundary-edge graph: keys and neighbours in insertion order
BoundaryAdj(boundaryEdges) ==
    LET keys == AddAll(<<>>, Flatten([k \in 1..Len(boundaryEdges) |->
                                         <<boundaryEdges[k][1], boundaryEdges[k][2]>>]))
    IN [keys |-> keys,
        adj |-> [v \in Range(keys) |->
                   LET mine == SelectSeq(boundaryEdges, LAMBDA e : e[1] = v \/ e[2] = v)
                   IN [k \in 1..Len(mine) |-> IF mine[k][1] = v THEN mine[k][2] ELSE mine[k][1]]]]

countBoundaryLoops(boundaryEdges) ==
    IF boundaryEdges = <<>> THEN 0
    ELSE LET g == BoundaryAdj(boundaryEdges)
         IN Len(BfsComponents(g.adj, g.keys, {}, <<>>))

\* Euler characteristic, boundary edges (used by one face) and boundary loop count
computeEuler(mesh) ==
    LET V == Len(mesh.vertices)
        F == Len(mesh.faces)
        allKeys == Flatten([f \in 1..F |-> FaceEdges(mesh.faces[f])])
        edgeKeys == AddAll(<<>>, allKeys)
        E == Len(edgeKeys)
        boundaryEdges == SelectSeq(edgeKeys, LAMBDA e : CountOf(allKeys, e) = 1)
    IN [euler |-> V - E + F, V |-> V, E |-> E, F |-> F,
        boundaryEdges |-> boundaryEdges,
        boundaryLoopCount |-> countBoundaryLoops(boundaryEdges)]

\* the boundary loops as vertex lists in breadth-first order, longest first
separateBoundaryLoops(boundaryEdges) ==
    LET g == BoundaryAdj(boundaryEdges)
    IN SortByLenDesc(BfsComponents(g.adj, g.keys, {}, <<>>))

\* every step-th vertex of the loop, step = floor(length / maxSamples)
sampleLoop(loop, maxSamples) ==
    IF Len(loop) <= maxSamples THEN loop
    ELSE LET step == Len(loop) \div maxSamples
             idx == SelectSeq([i \in 1..Len(loop) |-> i - 1], LAMBDA i : i % step = 0)
         IN [k \in 1..Len(idx) |-> loop[idx[k] + 1]]

\* the pair the double loop keeps among pairs[lo..hi]: the first one of least
\* squared distance (`dist < minDist` never replaces a pair by a later one at
\* the same distance); the range is searched by halves
Closer(first, second) == IF first.distance <= second.distance THEN first ELSE second

RECURSIVE MinPair(_, _, _, _)
MinPair(mesh, pairs, lo, hi) ==
    IF lo = hi
    THEN [found |-> TRUE, startV |-> pairs[lo][1], endV |-> pairs[lo][2],
          distance |-> Dist2(mesh.vertices[pairs[lo][1] + 1], mesh.vertices[pairs[lo][2] + 1])]
    ELSE Closer(MinPair(mesh, pairs, lo, (lo + hi) \div 2),
                MinPair(mesh, pairs, (lo + hi) \div 2 + 1, hi))

NoBridge == [found |-> FALSE, startV |-> 0, endV |-> 0, distance |-> 0]

SAMPLE_MAX == 20

\* the double loop of findShortestBridge over the pairs of sampled vertices
BestBridge(mesh, pairs) ==
    IF pairs = <<>> THEN NoBridge ELSE MinPair(mesh, pairs, 1, Len(pairs))

\* the pairs (vA, vB) in the order the double loop visits them
SamplePairs(sampleA, sampleB) ==
    Flatten([a \in 1..Len(sampleA) |-> [b \in 1..Len(sampleB) |-> <<sampleA[a], sampleB[b]>>]])

\* closest pair of sampled vertices of the two loops (null when a loop is empty)
findShortestBridge(mesh, loopA, loopB) ==
    BestBridge(mesh, SamplePairs(sampleLoop(loopA, SAMPLE_MAX), sampleLoop(loopB, SAMPLE_MAX)))

\* vertex adjacency as insertion-ordered sets, for every vertex of the mesh
VertexAdjacency(mesh) ==
    LET slots == Slots(mesh.faces)
    IN [v \in 0..(Len(mesh.vertices) - 1) |->
          LET mine == SelectSeq(slots, LAMBDA sl : sl[1] = v \/ sl[2] = v)
          IN AddAll(<<>>, [k \in 1..Len(mine) |-> IF mine[k][1] = v THEN mine[k][2] ELSE mine[k][1]])]

\* the path from node back to the start along prev (prev[start] is undefined: -1)
RECURSIVE PathBack(_, _, _)
PathBack(prev, node, path) ==
    IF node = -1 THEN path ELSE PathBack(prev, prev[node], <<node>> \o path)

\* breadth-first search from start; the path once end leaves the queue
RECURSIVE GeodesicRun(_, _, _, _, _, _)
GeodesicRun(adj, start, end, queue, visited, prev) ==
    IF queue = <<>> THEN <<start, end>>
    ELSE LET curr == Head(queue)
         IN IF curr = end THEN PathBack(prev, end, <<>>)
            ELSE LET fresh == SelectSeq(adj[curr], LAMBDA w : w \notin visited)
                 IN GeodesicRun(adj, start, end, Tail(queue) \o fresh,
                                visited \cup Range(fresh),
                                [v \in DOMAIN prev |-> IF v \in Range(fresh) THEN curr ELSE prev[v]])

findGeodesicPath(mesh, start, end) ==
    LET adj == VertexAdjacency(mesh)
    IN GeodesicRun(adj, start, end, <<start>>, {start}, [v \in DOMAIN adj |-> -1])

\* the first vertex of targetSet strictly nearest to vertex (-1 for null)
RECURSIVE NearestFrom(_, _, _, _, _)
NearestFrom(mesh, vertex, targetSet, k, best) ==
    IF k > Len(targetSet) THEN best.v
    ELSE LET d == Dist2(mesh.vertices[vertex + 1], mesh.vertices[targetSet[k] + 1])
         IN NearestFrom(mesh, vertex, targetSet, k + 1,
                        IF best.v # -1 /\ best.d <= d THEN best ELSE [v |-> targetSet[k], d |-> d])

findNearestInSet(mesh, vertex, targetSet) ==
    NearestFrom(mesh, vertex, targetSet, 1, [v |-> -1, d |-> 0])

\* the path extended at either end to the nearest vertex of loopA / loopB
snapPathToBoundary(mesh, path, loopA, loopB) ==
    IF Len(path) < 2 THEN path
    ELSE LET nearA == findNearestInSet(mesh, path[1], loopA)
             p1 == IF path[1] \notin Range(loopA) /\ nearA # -1 THEN <<nearA>> \o path ELSE path
             nearB == findNearestInSet(mesh, p1[Len(p1)], loopB)
         IN IF p1[Len(p1)] \notin Range(loopB) /\ nearB # -1 THEN Append(p1, nearB) ELSE p1

\* the sub-mesh of a group of faces, vertices renumbered in order of first use
createSubMesh(mesh, faceIndices) ==
    LET usedVertices == AddAll(<<>>, Flatten([k \in 1..Len(faceIndices) |-> mesh.faces[faceIndices[k]]]))
    IN [vertices |-> [l \in 1..Len(usedVertices) |-> mesh.vertices[usedVertices[l] + 1]],
        faces |-> [k \in 1..Len(faceIndices) |->
                     [i \in 1..3 |-> IndexOf(usedVertices, mesh.faces[faceIndices[k]][i]) - 1]],
        localToGlobal |-> usedVertices,
        originalFaceIndices |-> faceIndices]

PathEdges(path) == {EdgeKey(path[i], path[i + 1]) : i \in 1..(Len(path) - 1)}

\* face adjacency across the edges used by exactly two faces and not in cutEdges,
\* as insertion-ordered sets
FaceAdjExcept(faces, cutEdges) ==
    LET eo == EdgeOrder(faces)
        edgeToFaces == [e \in Range(eo) |-> EdgeFaces(faces, e)]
        open == SelectSeq(eo, LAMBDA e : e \notin cutEdges /\ Len(edgeToFaces[e]) = 2)
    IN [f \in 1..Len(faces) |->
          LET mine == SelectSeq(open, LAMBDA e : f = edgeToFaces[e][1] \/ f = edgeToFaces[e][2])
          IN AddAll(<<>>, [k \in 1..Len(mine) |->
                             IF edgeToFaces[mine[k]][1] = f THEN edgeToFaces[mine[k]][2]
                             ELSE edgeToFaces[mine[k]][1]])]

\* the groups of faces connected without crossing the path; one sub-mesh per group,
\* or the empty list when the path does not separate the faces
cutMeshAlongPath(mesh, path) ==
    IF Len(path) < 2 THEN <<mesh>>
    ELSE LET faceAdj == FaceAdjExcept(mesh.faces, PathEdges(path))
             groups == BfsComponents(faceAdj, [f \in 1..Len(mesh.faces) |-> f], {}, <<>>)
         IN IF Len(groups) <= 1 THEN <<>>
            ELSE [g \in 1..Len(groups) |-> createSubMesh(mesh, groups[g])]

\* the list of sub-meshes after the single cut, or the empty list for null
repairCylinder(mesh, topo) ==
    LET loops == separateBoundaryLoops(topo.boundaryEdges)
    IN IF Len(loops) < 2 THEN <<>>
       ELSE LET loopA == loops[1]
                loopB == loops[2]
                bridge == findShortestBridge(mesh, loopA, loopB)
            IN IF ~bridge.found THEN <<>>
               ELSE LET path0 == findGeodesicPath(mesh, bridge.startV, bridge.endV)
                    IN IF Len(path0) < 2 THEN <<>>
                       ELSE cutMeshAlongPath(mesh, snapPathToBoundary(mesh, path0, loopA, loopB))


\* the first pair (i, j), i < j, of sampled boundary vertices strictly farther
\* apart than every pair before it; the end points of the first boundary edge
\* when no pair is apart
RECURSIVE MaxPair(_, _, _, _)
MaxPair(mesh, pairs, k, best) ==
    IF k > Len(pairs) THEN best
    ELSE LET d == Dist2(mesh.vertices[pairs[k][1] + 1], mesh.vertices[pairs[k][2] + 1])
         IN MaxPair(mesh, pairs, k + 1,
                    IF d > best.maxDist THEN [pointA |-> pairs[k][1], pointB |-> pairs[k][2],
                                              maxDist |-> d]
                    ELSE best)

GENERIC_SAMPLES == 30

\* repairGeneric: one cut along the path between the two boundary vertices
\* farthest apart; the mesh itself when the cut does not separate its faces
repairGeneric(mesh, topo) ==
    IF topo.boundaryEdges = <<>> THEN <<mesh>>
    ELSE LET boundaryArray == AddAll(<<>>, Flatten([k \in 1..Len(topo.boundaryEdges) |->
                                  <<topo.boundaryEdges[k][1], topo.boundaryEdges[k][2]>>]))
             n == Len(boundaryArray)
             sampleSize == IF n < GENERIC_SAMPLES THEN n ELSE GENERIC_SAMPLES
             step == Max2(1, n \div sampleSize)
             sampled == SelectSeq([i \in 1..n |-> i - 1], LAMBDA i : i % step = 0)
             pairs == Flatten([a \in 1..Len(sampled) |->
                                 [b \in 1..(Len(sampled) - a) |->
                                    <<boundaryArray[sampled[a] + 1],
                                      boundaryArray[sampled[a + b] + 1]>>]])
             far == MaxPair(mesh, pairs, 1,
                            [pointA |-> topo.boundaryEdges[1][1],
                             pointB |-> topo.boundaryEdges[1][2], maxDist |-> 0])
             path == findGeodesicPath(mesh, far.pointA, far.pointB)
         IN IF Len(path) < 2 THEN <<mesh>>
            ELSE IF cutMeshAlongPath(mesh, path) # <<>> THEN cutMeshAlongPath(mesh, path)
            ELSE <<mesh>>

\* the body of the loop of repairAll: what one patch adds to the results
RepairOne(mesh, topo, minFaces) ==
    IF Len(mesh.faces) < minFaces THEN <<>>
    ELSE IF topo.euler = 1 THEN <<mesh>>
    ELSE IF topo.euler = 0 /\ topo.boundaryLoopCount >= 2
         THEN (IF repairCylinder(mesh, topo) # <<>> THEN repairCylinder(mesh, topo) ELSE <<mesh>>)
    ELSE IF topo.euler = 2 /\ topo.boundaryLoopCount = 0 THEN <<mesh>>
    ELSE IF topo.euler < -1 THEN <<mesh>>
    ELSE repairGeneric(mesh, topo)

(***************************************************************************)
(* MeshScissor.cutAlongEdges                                               *)
(***************************************************************************)
\* index of the group that holds face f (groupId, from 0)
RECURSIVE GroupOfFrom(_, _, _)
GroupOfFrom(groups, f, g) ==
    IF g > Len(groups) THEN -1
    ELSE IF f \in Range(groups[g]) THEN g - 1 ELSE GroupOfFrom(groups, f, g + 1)

\* the index a cut vertex has in group gId according to groupMap, a list of
\* <<vertex, group, index>> entries (-1 if the group has none yet)
RECURSIVE GroupMapGet(_, _, _, _)
GroupMapGet(groupMap, vIdx, gId, k) ==
    IF k > Len(groupMap) THEN -1
    ELSE IF groupMap[k][1] = vIdx /\ groupMap[k][2] = gId THEN groupMap[k][3]
    ELSE GroupMapGet(groupMap, vIdx, gId, k + 1)

\* the pass over the corners of the faces (face f, corner i): a cut vertex keeps
\* its index in the first group that meets it and gets a fresh copy in each
\* later group. st.origin lists the original vertex of each copy.
RECURSIVE CutAssign(_, _, _, _, _, _, _)
CutAssign(faces, n, cutVertices, groups, f, i, st) ==
    IF f > Len(st.newFaces) THEN st
    ELSE IF i > 3 THEN CutAssign(faces, n, cutVertices, groups, f + 1, 1, st)
    ELSE LET vIdx == faces[f][i]
             gId == GroupOfFrom(groups, f, 1)
             have == GroupMapGet(st.groupMap, vIdx, gId, 1)
             first == \A k \in 1..Len(st.groupMap) : st.groupMap[k][1] # vIdx
             idx == IF vIdx \notin cutVertices THEN vIdx
                    ELSE IF have # -1 THEN have
                    ELSE IF first THEN vIdx
                    ELSE n + Len(st.origin)
             st1 == [groupMap |-> IF vIdx \in cutVertices /\ have = -1
                                  THEN Append(st.groupMap, <<vIdx, gId, idx>>)
                                  ELSE st.groupMap,
                     origin |-> IF vIdx \in cutVertices /\ have = -1 /\ ~first
                                THEN Append(st.origin, vIdx) ELSE st.origin,
                     newFaces |-> [st.newFaces EXCEPT ![f][i] = idx]]
         IN CutAssign(faces, n, cutVertices, groups, f, i + 1, st1)

\* vertex splitting along seamEdges: the mesh unchanged when there is no seam edge
cutAlongEdges(mesh, seamEdges) ==
    IF seamEdges = {} THEN mesh
    ELSE LET n == Len(mesh.vertices)
             cutVertices == UNION {{e[1], e[2]} : e \in seamEdges}
             faceNeighbors == FaceAdjExcept(mesh.faces, seamEdges)
             groups == BfsComponents(faceNeighbors, [f \in 1..Len(mesh.faces) |-> f], {}, <<>>)
             st == CutAssign(mesh.faces, n, cutVertices, groups, 1, 1,
                             [groupMap |-> <<>>, origin |-> <<>>, newFaces |-> mesh.faces])
         IN [vertices |-> mesh.vertices \o [k \in 1..Len(st.origin) |-> mesh.vertices[st.origin[k] + 1]],
             faces |-> st.newFaces,
             localToGlobal |-> mesh.localToGlobal
                                 \o [k \in 1..Len(st.origin) |-> mesh.localToGlobal[st.origin[k] + 1]],
             originalFaceIndices |-> mesh.originalFaceIndices]

(***************************************************************************)
(* ClothFlattenerApp: the per-patch steps of flattenMesh                   *)
(***************************************************************************)
\* at least two vertices of the patch are in the red set
hasInternalRedSeams(subMesh, redVerticesSet) ==
    Cardinality({l \in 1..Len(subMesh.localToGlobal) :
                    subMesh.localToGlobal[l] \in redVerticesSet}) >= 2

\* the local edges of the patch with two red endpoints
InternalSeamEdges(subMesh, redVerticesSet) ==
    LET localRedSet == {l - 1 : l \in {k \in 1..Len(subMesh.localToGlobal) :
                                          subMesh.localToGlobal[k] \in redVerticesSet}}
    IN {e \in MeshEdges(subMesh.faces) : e[1] \in localRedSet /\ e[2] \in localRedSet}

processInternalSeams(subMesh, redVerticesSet) ==
    IF ~hasInternalRedSeams(subMesh, redVerticesSet) THEN subMesh
    ELSE IF InternalSeamEdges(subMesh, redVerticesSet) = {} THEN subMesh
    ELSE cutAlongEdges(subMesh, InternalSeamEdges(subMesh, redVerticesSet))

\* extent of the coordinates c (1, 2 or 3) of the vertices
AxisSize(vertices, c) ==
    LET vals == {vertices[k][c] : k \in 1..Len(vertices)}
    IN (CHOOSE x \in vals : \A y \in vals : y <= x) - (CHOOSE x \in vals : \A y \in vals : x <= y)

\* longest extent more than 1.8 times the second longest
isElongated(subMesh) ==
    IF Len(subMesh.vertices) < 3 THEN FALSE
    ELSE LET sizes == {<<AxisSize(subMesh.vertices, c), c>> : c \in 1..3}
             top == CHOOSE a \in sizes : \A b \in sizes : b[1] <= a[1]
             second == CHOOSE a \in sizes \ {top} : \A b \in sizes \ {top} : b[1] <= a[1]
         IN IF second[1] = 0 THEN FALSE ELSE 10 * top[1] > 18 * second[1]


(***************************************************************************)
(* MeshScissor.mergeVertices and the colour remap of segmentParts          *)
(* Lengths are integers in units of the weld tolerance's last digit;       *)
(* distances are compared by their squares.                                *)
(***************************************************************************)
\* spatial-hash cell of a point
CellOf(v, cellSize) == <<v[1] \div cellSize, v[2] \div cellSize, v[3] \div cellSize>>

\* the 27 neighbouring cells in the order of the dx, dy, dz loops
CheckKeys(c) ==
    [k \in 1..27 |-> <<c[1] + ((k - 1) \div 9) - 1, c[2] + (((k - 1) \div 3) % 3) - 1,
                       c[3] + ((k - 1) % 3) - 1>>]

\* mutant: only the cell of v itself is searched
FindMergeTargetOwnCell(v, newVertices, tolerance, keys, k) ==
    LET hits == {idx \in 1..Len(newVertices) :
                    /\ CellOf(newVertices[idx], tolerance * 10) = CellOf(v, tolerance * 10)
                    /\ Dist2(v, newVertices[idx]) <= tolerance * tolerance}
    IN IF hits # {} THEN (CHOOSE idx \in hits : \A j \in hits : idx <= j) - 1 ELSE -1

\* the existing vertex v is merged into: the first one within the tolerance in
\* the first neighbouring cell that has one (-1 if none)
RECURSIVE FindMergeTarget(_, _, _, _, _)
FindMergeTarget(v, newVertices, tolerance, keys, k) ==
    IF k > Len(keys) THEN -1
    ELSE LET hits == {idx \in 1..Len(newVertices) :
                         /\ CellOf(newVertices[idx], tolerance * 10) = keys[k]
                         /\ Dist2(v, newVertices[idx]) <= tolerance * tolerance}
         IN IF hits # {} THEN (CHOOSE idx \in hits : \A j \in hits : idx <= j) - 1
            ELSE FindMergeTarget(v, newVertices, tolerance, keys, k + 1)

\* mutant: a merged vertex gives its position to the vertex it is merged into
RECURSIVE MergeRunLastWins(_, _, _, _, _)
MergeRunLastWins(vertices, tolerance, i, newVertices, vertexMap) ==
    IF i > Len(vertices) THEN [vertices |-> newVertices, vertexMap |-> vertexMap]
    ELSE LET v == vertices[i]
             target == FindMergeTarget(v, newVertices, tolerance,
                                       CheckKeys(CellOf(v, tolerance * 10)), 1)
         IN IF target # -1
            THEN MergeRunLastWins(vertices, tolerance, i + 1,
                                  [newVertices EXCEPT ![target + 1] = v],
                                  Append(vertexMap, target))
            ELSE MergeRunLastWins(vertices, tolerance, i + 1, Append(newVertices, v),
                                  Append(vertexMap, Len(newVertices)))

RECURSIVE MergeRun(_, _, _, _, _)
MergeRun(vertices, tolerance, i, newVertices, vertexMap) ==
    IF i > Len(vertices) THEN [vertices |-> newVertices, vertexMap |-> vertexMap]
    ELSE LET v == vertices[i]
             target == FindMergeTarget(v, newVertices, tolerance,
                                       CheckKeys(CellOf(v, tolerance * 10)), 1)
         IN IF target # -1
            THEN MergeRun(vertices, tolerance, i + 1, newVertices, Append(vertexMap, target))
            ELSE MergeRun(vertices, tolerance, i + 1, Append(newVertices, v),
                          Append(vertexMap, Len(newVertices)))

\* welded vertices, re-indexed faces without the degenerate ones, old -> new map
mergeVertices(mesh, tolerance) ==
    LET run == MergeRun(mesh.vertices, tolerance, 1, <<>>, <<>>)
        newFaces == [f \in 1..Len(mesh.faces) |->
                       [i \in 1..3 |-> run.vertexMap[mesh.faces[f][i] + 1]]]
    IN [vertices |-> run.vertices,
        faces |-> SelectSeq(newFaces, LAMBDA face : Cardinality(FaceVerts(face)) >= 3),
        vertexMap |-> run.vertexMap,
        mergedCount |-> Len(mesh.vertices) - Len(run.vertices)]

Black == [r |-> 0, g |-> 0, b |-> 0]

\* one step of the remap loop: the colour replaces the stored one if it is redder
RemapStep(newColors, newIdx, oldColor) ==
    IF oldColor.r > newColors[newIdx + 1].r THEN [newColors EXCEPT ![newIdx + 1] = oldColor]
    ELSE newColors

RECURSIVE RemapRun(_, _, _, _)
RemapRun(originalColors, vertexMap, oldIdx, newColors) ==
    IF oldIdx > Len(originalColors) THEN newColors
    ELSE RemapRun(originalColors, vertexMap, oldIdx + 1,
                  IF vertexMap[oldIdx] < Len(newColors)
                  THEN RemapStep(newColors, vertexMap[oldIdx], originalColors[oldIdx])
                  ELSE newColors)

\* colours of the welded mesh; hasMap is false when nothing was merged (vertexMap null)
remapColorsToWeldedMesh(originalColors, hasMap, vertexMap, newVertexCount) ==
    IF originalColors = <<>> THEN <<>>
    ELSE IF ~hasMap THEN originalColors
    ELSE RemapRun(originalColors, vertexMap, 1, [k \in 1..newVertexCount |-> Black])

\* tolerance 1e-5 of segmentParts in model units
WELD_TOLERANCE == 1

\* step 1 of segmentParts: weld, and remap the colours when something was merged
WeldedMesh(meshData) ==
    LET mergedResult == mergeVertices(meshData, WELD_TOLERANCE)
        merged == mergedResult.mergedCount > 0
        mesh == IF merged THEN mergedResult ELSE meshData
    IN [vertices |-> mesh.vertices, faces |-> mesh.faces,
        vertexColors |-> remapColorsToWeldedMesh(meshData.vertexColors, merged,
                                                 mergedResult.vertexMap, Len(mesh.vertices)),
        hasVertexColors |-> TRUE,
        vertexMap |-> mergedResult.vertexMap]

(***************************************************************************)
(* SeamExtractor.  Colour channels are in tenths (0..10).  modelSize holds *)
(* the square of the bounding-box diagonal.                                *)
(***************************************************************************)
\* thresholds of the red predicate used by segmentParts, in tenths
RED_THRESHOLD == 7
GREEN_MAX == 4
BLUE_MAX == 4

NewExtractor ==
    [meshData |-> [vertices |-> <<>>, faces |-> <<>>, vertexColors |-> <<>>,
                   hasVertexColors |-> FALSE],
     redVertices |-> <<>>, seamPaths |-> <<>>, seamEdges |-> {}, modelSize |-> 1]

\* mutant: the edges kept from earlier calls are not cleared
setMeshKeepEdges(ex, meshData) ==
    [ex EXCEPT !.meshData = meshData, !.redVertices = <<>>, !.seamPaths = <<>>]

setMesh(ex, meshData) ==
    [ex EXCEPT !.meshData = meshData, !.redVertices = <<>>, !.seamPaths = <<>>,
               !.seamEdges = {}]

IsRedColor(color, redThreshold, greenMax, blueMax) ==
    color.r > redThreshold /\ color.g < greenMax /\ color.b < blueMax

\* the vertices whose colour passes the thresholds, ascending; the extractor is
\* left as it is when the mesh has no colours
extractRedVertices(ex, redThreshold, greenMax, blueMax) ==
    IF ~ex.meshData.hasVertexColors THEN ex
    ELSE LET colors == ex.meshData.vertexColors
         IN [ex EXCEPT !.redVertices =
                SelectSeq([k \in 1..Len(colors) |-> k - 1],
                          LAMBDA i : IsRedColor(colors[i + 1], redThreshold, greenMax, blueMax))]

\* squared bounding-box diagonal of the mesh
ModelSize2(vertices) ==
    AxisSize(vertices, 1) * AxisSize(vertices, 1) + AxisSize(vertices, 2) * AxisSize(vertices, 2)
        + AxisSize(vertices, 3) * AxisSize(vertices, 3)

\* dist <= max(eps, 0.05 * modelSize) for points with integer coordinates and
\* eps < 1
WithinEps(d2, size2) == d2 = 0 \/ 400 * d2 <= size2

\* one DBSCAN cluster grown from a stack (queue.pop)
RECURSIVE ClusterRun(_, _, _, _, _)
ClusterRun(ex, size2, queue, visited, cluster) ==
    IF queue = <<>> THEN [cluster |-> cluster, visited |-> visited]
    ELSE LET current == queue[Len(queue)]
             rest == SubSeq(queue, 1, Len(queue) - 1)
         IN IF current \in visited THEN ClusterRun(ex, size2, rest, visited, cluster)
            ELSE LET visited1 == visited \cup {current}
                     near == SelectSeq(ex.redVertices, LAMBDA other :
                                 /\ other \notin visited1
                                 /\ WithinEps(Dist2(ex.meshData.vertices[current + 1],
                                                    ex.meshData.vertices[other + 1]), size2))
                 IN ClusterRun(ex, size2, rest \o near, visited1, Append(cluster, current))

RECURSIVE DbscanRun(_, _, _, _, _)
DbscanRun(ex, size2, k, visited, clusters) ==
    IF k > Len(ex.redVertices) THEN clusters
    ELSE IF ex.redVertices[k] \in visited THEN DbscanRun(ex, size2, k + 1, visited, clusters)
    ELSE LET run == ClusterRun(ex, size2, <<ex.redVertices[k]>>, visited, <<>>)
         IN DbscanRun(ex, size2, k + 1, run.visited,
                      IF Len(run.cluster) >= 2 THEN Append(clusters, run.cluster) ELSE clusters)

\* clusters of at least two red vertices, largest first
dbscanCluster(ex, size2) == SortByLenDesc(DbscanRun(ex, size2, 1, {}, <<>>))

\* greedy nearest-neighbour order, the first candidate winning a tie
RECURSIVE NearestOrder(_, _, _, _)
NearestOrder(vertices, current, remaining, result) ==
    IF remaining = <<>> THEN result
    ELSE LET nearest == NearestFrom([vertices |-> vertices], current, remaining, 1,
                                    [v |-> -1, d |-> 0])
         IN NearestOrder(vertices, nearest,
                         SelectSeq(remaining, LAMBDA x : x # nearest), Append(result, nearest))

orderByNearestNeighbor(vertices, vertexIndices) ==
    IF Len(vertexIndices) <= 2 THEN vertexIndices
    ELSE NearestOrder(vertices, vertexIndices[1], Tail(vertexIndices), <<vertexIndices[1]>>)

\* the mesh edges whose two endpoints are red, added to seamEdges
extractRedEdges(ex, redSet) ==
    ex.seamEdges \cup {e \in MeshEdges(ex.meshData.faces) : e[1] \in redSet /\ e[2] \in redSet}

\* nothing changes when fewer than two vertices are red; otherwise paths and
\* edges are rebuilt from the current red vertices
connectRedVertices(ex) ==
    IF Len(ex.redVertices) < 2 THEN ex
    ELSE LET size2 == ModelSize2(ex.meshData.vertices)
             cleared == [ex EXCEPT !.seamPaths = <<>>, !.seamEdges = {}, !.modelSize = size2]
             clusters == dbscanCluster(cleared, size2)
         IN [cleared EXCEPT
                !.seamEdges = extractRedEdges(cleared, Range(ex.redVertices)),
                !.seamPaths = [i \in 1..Len(clusters) |->
                                 [id |-> i - 1,
                                  vertices |-> orderByNearestNeighbor(ex.meshData.vertices, clusters[i]),
                                  waypointIndices |-> clusters[i],
                                  isClosed |-> FALSE]]]

getSeamEdgeSet(ex) == ex.seamEdges


\* the pattern of a flattened patch (vertexMap, the patch's global-to-local
\* map, is not represented)
createPatternFromSubMesh(subMesh, uvs, index, hasTopologyError) ==
    [pieceIndex |-> index,
     localVertices |-> [k \in 1..Len(subMesh.vertices) |->
                          [global |-> subMesh.localToGlobal[k], local |-> k - 1,
                           pos3D |-> subMesh.vertices[k]]],
     localFaces |-> subMesh.faces,
     globalFaces |-> subMesh.originalFaceIndices,
     uv |-> uvs,
     hasTopologyError |-> hasTopologyError]

\* The loop body of flattenMesh for patch number index, in its steps.  env tells
\* which of the flatteners called by the body raise an exception in this pass,
\* and whether an exception is raised outside the body's own try blocks.  The
\* log entry of the pass records what happened; its field failure tells whether
\* the cylinder surgery gave no repaired patch or an exception was raised.  UV
\* coordinates are represented by the strategy that produced the initial
\* embedding and by whether the relaxation replaced it.

\* A list of UV coordinates, by what the orchestrator can see of it: the
\* strategy that produced it, its number of entries and whether every value in
\* it is finite.
UV(strategy, entries, finite) == [strategy |-> strategy, entries |-> entries, finite |-> finite]

\* null
NoUV == UV("none", 0, TRUE)

\* the test every candidate goes through: not null, one entry per vertex
ValidUV(uv, subMesh) == uv # NoUV /\ uv.entries = Len(subMesh.vertices)

projectPlanarUV(subMesh) == UV("projectPlanarUV", Len(subMesh.vertices), TRUE)

\* computeInitialUV.  lscmFlattener.flatten is an async function and its value
\* is not awaited: result is a promise, result.uvs is undefined, and the LSCM
\* branch never returns, whatever flatten does (env.flatten).  The PCA
\* projection has one entry per vertex, so it is what is returned.
computeInitialUV(subMesh, env) ==
    IF Len(subMesh.vertices) < 3 THEN projectPlanarUV(subMesh)
    ELSE UV("pca", Len(subMesh.vertices), env.pca = "ok")

\* phase 2, first strategy: tube unrolling for a cylinder or an elongated patch
TubeStep(subMesh, env, routed) ==
    IF routed /\ env.tube # "throws"
    THEN UV("tube", Len(subMesh.vertices), env.tube = "ok")
    ELSE NoUV

\* phase 2, second strategy: what the code calls LSCM
LscmStep(initialUV, subMesh, env) ==
    IF ValidUV(initialUV, subMesh) THEN initialUV
    ELSE IF env.lscm = "throws" THEN NoUV
    ELSE computeInitialUV(subMesh, env)

\* phase 2, third strategy: the BFS fan, with the planar projection of
\* PhysicsFlattener in its catch block
BfsStep(initialUV, subMesh, env) ==
    IF ValidUV(initialUV, subMesh) THEN initialUV
    ELSE IF env.bfs = "throws" THEN UV("planarProjection", Len(subMesh.vertices), TRUE)
    ELSE UV("bfs", Len(subMesh.vertices), TRUE)

\* phase 2: the initial embedding handed to the relaxer
InitialEmbedding(subMesh, env, routed) ==
    LET initialUV == BfsStep(LscmStep(TubeStep(subMesh, env, routed), subMesh, env), subMesh, env)
    IN IF ValidUV(initialUV, subMesh) THEN initialUV ELSE projectPlanarUV(subMesh)

\* PhysicsFlattener.relaxDifferentiated: the input is returned when it does not
\* fit the patch; the output has one entry per vertex and is not checked
relaxDifferentiated(subMesh, initialUV, env) ==
    IF Len(subMesh.vertices) < 3 \/ initialUV.entries # Len(subMesh.vertices) THEN initialUV
    ELSE UV("relaxer", Len(subMesh.vertices), env.physics = "ok")

\* phase 3: the relaxed embedding, or the initial one when the relaxer throws
RelaxedEmbedding(subMesh, initialUV, env) ==
    LET uvs == IF env.physics = "throws" THEN initialUV
               ELSE relaxDifferentiated(subMesh, initialUV, env)
    IN IF ValidUV(uvs, subMesh) THEN uvs ELSE projectPlanarUV(subMesh)

\* the pattern and the log entry of a pass, from its embeddings
PatchPass(subMesh, index, env, internalCut, wasCylinder, repaired, routed, initialUV) ==
    [uncaught |-> env.uncaught,
     pattern |-> createPatternFromSubMesh(subMesh, RelaxedEmbedding(subMesh, initialUV, env),
                                          index, FALSE),
     log |-> [internalCut |-> internalCut,
              wasCylinder |-> wasCylinder,
              eulerAfterSurgery |-> computeEuler(subMesh).euler,
              facesAfterSurgery |-> Len(subMesh.faces),
              vertexCount |-> Len(subMesh.vertices),
              tubeRoute |-> routed,
              initialUV |-> initialUV,
              env |-> env,
              failure |-> \/ wasCylinder /\ ~repaired
                          \/ env.uncaught
                          \/ "throws" \in {env.tube, env.lscm, env.bfs, env.physics}]]

\* steps 3 to 5: initial embedding (with its fallbacks), relaxation, pattern
EmbedRouted(subMesh, index, env, internalCut, wasCylinder, repaired, routed) ==
    PatchPass(subMesh, index, env, internalCut, wasCylinder, repaired, routed,
              InitialEmbedding(subMesh, env, routed))

EmbedPatch(repair, index, env, internalCut, wasCylinder) ==
    EmbedRouted(repair.subMesh, index, env, internalCut, wasCylinder, repair.repaired,
                wasCylinder \/ isElongated(repair.subMesh))

\* the first repaired patch if the surgery returned one, else the patch as it was
FixedOrSame(fixed, subMesh) ==
    IF Len(fixed) > 0 THEN [subMesh |-> fixed[1], repaired |-> TRUE]
    ELSE [subMesh |-> subMesh, repaired |-> FALSE]

\* step 2: the topology check and the cylinder surgery
RepairPatch(subMesh, topo, index, env, internalCut) ==
    LET wasCylinder == topo.euler # 1 /\ topo.euler = 0 /\ topo.boundaryLoopCount >= 2
    IN EmbedPatch(IF wasCylinder THEN FixedOrSame(repairCylinder(subMesh, topo), subMesh)
                  ELSE [subMesh |-> subMesh, repaired |-> FALSE],
                  index, env, internalCut, wasCylinder)

\* step 1: the internal seams
FlattenOnePatch(subMesh0, index, redVerticesSet, env) ==
    LET hasInternalSeams == hasInternalRedSeams(subMesh0, redVerticesSet)
        subMesh == IF hasInternalSeams THEN processInternalSeams(subMesh0, redVerticesSet)
                   ELSE subMesh0
    IN RepairPatch(subMesh, computeEuler(subMesh), index, env,
                   hasInternalSeams /\ InternalSeamEdges(subMesh0, redVerticesSet) # {})

\* segmentParts from the seam extraction on: mesh is the welded mesh, redVertices
\* the extracted red vertices and ex the extractor after connectRedVertices
SegmentExtracted(a, mesh, redVertices, ex) ==
    [a EXCEPT !.weldedMesh = mesh,
              !.seamExtractor = ex,
              !.redVertices = redVertices,
              !.redVerticesSet = Range(redVertices),
              !.barrierEdges = getSeamEdgeSet(ex),
              !.segmentedParts = segmentWithSeams(mesh, getSeamEdgeSet(ex), a.minFaces,
                                                  TRUE, Range(redVertices)),
              !.pipelineStage = 1]

\* segmentParts after the weld
SegmentWelded(a, mesh, ex1) ==
    SegmentExtracted(a, mesh, ex1.redVertices, connectRedVertices(ex1))

SegmentMesh(a, mesh) ==
    SegmentWelded(a, mesh, extractRedVertices(setMesh(a.seamExtractor, mesh),
                                              RED_THRESHOLD, GREEN_MAX, BLUE_MAX))

WithoutVertexMap(welded) ==
    [vertices |-> welded.vertices, faces |-> welded.faces,
     vertexColors |-> welded.vertexColors, hasVertexColors |-> TRUE]

\* the body of segmentParts: weld, extract the seams, segment
segmentParts(a) ==
    IF a.meshData.vertexColors = <<>> THEN a
    ELSE SegmentMesh(a, WithoutVertexMap(WeldedMesh(a.meshData)))

(***************************************************************************)
(* Input meshes                                                            *)
(***************************************************************************)
MaxStrip == 7       \* longest triangle strip (faces)
MaxFan == 4         \* widest closed fan (faces around the centre vertex)
MaxPrism == 3       \* most segments of an open cylinder
MaxRed == 2         \* most red vertices of a segmenter input
MaxMinFaces == 3    \* largest minFaces option tried

\* a planar strip of n triangles on the vertices 0..n+1
Strip(n) ==
    [vertices |-> [k \in 1..(n + 2) |-> <<2 * ((k - 1) \div 2), 2 * ((k - 1) % 2), 0>>],
     faces |-> [k \in 1..n |-> IF k % 2 = 1 THEN <<k - 1, k, k + 1>> ELSE <<k - 1, k + 1, k>>]]

\* points of a ring in the plane z = h
RingPoint(k, h) ==
    CASE k % 6 = 0 -> <<4, 0, h>>
      [] k % 6 = 1 -> <<2, 3, h>>
      [] k % 6 = 2 -> <<-2, 3, h>>
      [] k % 6 = 3 -> <<-4, 0, h>>
      [] k % 6 = 4 -> <<-2, -3, h>>
      [] OTHER -> <<2, -3, h>>

\* a closed fan (a disk): centre 0, rim 1..n
Fan(n) ==
    [vertices |-> [k \in 1..(n + 1) |-> IF k = 1 THEN <<0, 0, 1>> ELSE RingPoint(k - 2, 0)],
     faces |-> [k \in 1..n |-> <<0, k, (k % n) + 1>>]]

\* an open cylinder of n segments: ring 0..n-1 at height 5, ring n..2n-1 at height 0
Prism(n) ==
    [vertices |-> [k \in 1..(2 * n) |->
                      IF k <= n THEN RingPoint(k - 1, 5) ELSE RingPoint(k - 1 - n, 0)],
     faces |-> [j \in 1..(2 * n) |->
                   LET k == (j - 1) \div 2
                       k1 == (k + 1) % n
                   IN IF j % 2 = 1 THEN <<k, k1, n + k>> ELSE <<k1, n + k1, n + k>>]]

\* a closed surface (sphere)
Tetra ==
    [vertices |-> <<<<0, 0, 0>>, <<3, 0, 0>>, <<0, 3, 0>>, <<0, 0, 3>>>>,
     faces |-> <<<<0, 1, 2>>, <<0, 3, 1>>, <<1, 3, 2>>, <<0, 2, 3>>>>]

\* three faces on one edge (non-manifold)
Book ==
    [vertices |-> <<<<0, 0, 0>>, <<3, 0, 0>>, <<0, 3, 0>>, <<0, -3, 0>>, <<0, 0, 3>>>>,
     faces |-> <<<<0, 1, 2>>, <<1, 0, 3>>, <<0, 1, 4>>>>]

\* two strips that share no vertex
TwoStrips ==
    [vertices |-> Strip(2).vertices \o [k \in 1..4 |-> <<2 * k, 0, 9>>],
     faces |-> Strip(2).faces \o <<<<4, 5, 6>>, <<5, 7, 6>>>>]

\* two open cylinders joined by three faces around vertex 0: the first cylinder
\* on vertices 1..6, the second on vertices 7..12
TwoPrisms ==
    LET P == Prism(3)
    IN [vertices |-> <<<<10, 0, 9>>>> \o P.vertices
                       \o [k \in 1..6 |-> <<P.vertices[k][1] + 20, P.vertices[k][2], P.vertices[k][3]>>],
        faces |-> <<<<1, 2, 0>>, <<2, 0, 7>>, <<0, 7, 8>>>>
                    \o [f \in 1..6 |-> [i \in 1..3 |-> P.faces[f][i] + 1]]
                    \o [f \in 1..6 |-> [i \in 1..3 |-> P.faces[f][i] + 7]]]

\* an empty mesh
EmptyMesh == [vertices |-> <<>>, faces |-> <<>>]

Meshes ==
    {Strip(n) : n \in 1..MaxStrip} \cup {Fan(n) : n \in 3..MaxFan}
        \cup {Prism(n) : n \in 3..MaxPrism} \cup {Tetra, Book, TwoStrips, EmptyMesh}

VertexIds(mesh) == 0..(Len(mesh.vertices) - 1)

SubsetsUpTo(S, n) == {T \in SUBSET S : Cardinality(T) <= n}

(***************************************************************************)
(* Specification of the segmenter: one call on a drawn input               *)
(***************************************************************************)
\* The walls are the red edges (FloodSegmenter.segment, segmentParts), or one of
\* them, or, for a caller that passes no red set, any one mesh edge.
SegWalls(m, R) ==
    {RedEdges(m.faces, R)}
        \cup {{e} : e \in IF R = {} THEN MeshEdges(m.faces) ELSE RedEdges(m.faces, R)}

SegInit ==
    /\ \E m \in Meshes :
         \E R \in SubsetsUpTo(VertexIds(m), MaxRed) :
           \E B \in SegWalls(m, R) :
             \E k \in 1..MaxMinFaces :
               segIn = [mesh |-> m, seamEdges |-> B, redVertices |-> R, minFaces |-> k]
    /\ segOut = <<>>
    /\ segPc = "input"
    /\ AppUnused /\ CutUnused /\ SeamUnused /\ WeldUnused /\ PackUnused /\ RelaxUnused /\ MergeUnused /\ RepairUnused /\ BridgeUnused /\ UnfoldUnused

SegmentWithSeams ==
    /\ segPc = "input"
    /\ segOut' = segmentWithSeams(segIn.mesh, segIn.seamEdges, segIn.minFaces, TRUE,
                                  segIn.redVertices)
    /\ segPc' = "done"
    /\ UNCHANGED <<segIn, appVars, cutVars, seamVars, weldVars, packVars, relaxVars, mergeVars, repairVars, bridgeVars, unfoldVars>>

SegNext == SegmentWithSeams

SpecSeg == SegInit /\ [][SegNext]_vars

(***************************************************************************)
(* Claims about the segmenter                                              *)
(***************************************************************************)
SegFaces == 1..Len(segIn.mesh.faces)

\* faces with at least one red vertex
TouchesRed(f) == FaceVerts(segIn.mesh.faces[f]) \cap segIn.redVertices # {}

\* original faces of returned patch p
PatchFaces(p) == Range(segOut[p].originalFaceIndices)

\* global vertices of local face k of returned patch p
PatchFaceGlobal(p, k) ==
    {segOut[p].localToGlobal[segOut[p].faces[k][i] + 1] : i \in 1..3}

\* the segmenter was given the walls the pipeline computes: the red edges
PipelineWalls == segIn.seamEdges = RedEdges(segIn.mesh.faces, segIn.redVertices)

\* C1: kerf correctness.  No face of a returned patch has a red vertex, and no
\* input face with a red vertex is in any returned patch.
C1_KerfCorrect ==
    segPc = "done" =>
        /\ \A p \in 1..Len(segOut) : \A k \in 1..Len(segOut[p].faces) :
              /\ ~TouchesRed(segOut[p].originalFaceIndices[k])
              /\ PatchFaceGlobal(p, k) \cap segIn.redVertices = {}
        /\ \A f \in SegFaces : TouchesRed(f) => \A p \in 1..Len(segOut) : f \notin PatchFaces(p)

\* a returned patch from whose island the kerf removed red faces
C1_Witness ==
    /\ segPc = "done"
    /\ \E p \in 1..Len(segOut) : segOut[p].internalRedVertices # {}

\* the islands of the input after the vote
InIslands == SegIslands(segIn.mesh, segIn.seamEdges, TRUE)

\* faces of the islands with fewer than minFaces faces
BelowThresholdFaces ==
    LET isl == InIslands
    IN UNION {Range(isl[i]) : i \in {j \in 1..Len(isl) : Len(isl[j]) < segIn.minFaces}}

\* faces of the islands with fewer than minFaces red-free faces
BelowThresholdAfterKerfFaces ==
    LET isl == InIslands
    IN UNION {Range(isl[i]) :
                i \in {j \in 1..Len(isl) :
                         Cardinality({f \in Range(isl[j]) : ~TouchesRed(f)}) < segIn.minFaces}}

OutputFaces == UNION {PatchFaces(p) : p \in 1..Len(segOut)}

\* C2 as stated: the returned faces are the original faces minus the kerf faces
\* minus the faces of the components (islands) below the minimum-face threshold.
C2_CoverageAsStated ==
    (segPc = "done" /\ PipelineWalls) =>
        OutputFaces = {f \in SegFaces : ~TouchesRed(f)} \ BelowThresholdFaces

\* C2 amended: a component is dropped when its red-free faces, the ones the kerf
\* leaves, number fewer than the threshold (the size test is repeated after the kerf).
C2_Coverage ==
    (segPc = "done" /\ PipelineWalls) =>
        OutputFaces = {f \in SegFaces : ~TouchesRed(f)} \ BelowThresholdAfterKerfFaces

\* a patch is returned, and an island that passes the size filter is dropped after
\* the kerf although it has red-free faces
C2_Witness ==
    /\ segPc = "done" /\ PipelineWalls
    /\ Len(segOut) >= 1
    /\ LET isl == InIslands
       IN \E i \in 1..Len(isl) :
             /\ Len(isl[i]) >= segIn.minFaces
             /\ Range(isl[i]) \cap OutputFaces = {}
             /\ \E f \in Range(isl[i]) : ~TouchesRed(f)

\* faces f and g share an edge used by exactly these two faces, and it is no wall
AdjacentAcrossNonBarrier(f, g) ==
    /\ f # g
    /\ \E e \in Range(FaceEdges(segIn.mesh.faces[f])) \cap Range(FaceEdges(segIn.mesh.faces[g])) :
          /\ e \notin segIn.seamEdges
          /\ Range(EdgeFaces(segIn.mesh.faces, e)) = {f, g}

PatchesSeparated ==
    \A p, q \in 1..Len(segOut) :
        p # q => \A f \in PatchFaces(p), g \in PatchFaces(q) : ~AdjacentAcrossNonBarrier(f, g)

RECURSIVE ReachFrom(_)
ReachFrom(S) ==
    LET T == S \cup {g \in SegFaces : \E f \in S : AdjacentAcrossNonBarrier(f, g)}
    IN IF T = S THEN S ELSE ReachFrom(T)

\* the input mesh has a face and all its faces hang together across such edges
EdgeConnected == SegFaces # {} /\ ReachFrom({1}) = SegFaces

RedFreeFaces == {f \in SegFaces : ~TouchesRed(f)}

\* C14 as stated: with an empty barrier set the segmenter returns exactly one
\* patch, and that patch contains every face of the input mesh.
C14_SinglePatchAsStated ==
    (segPc = "done" /\ segIn.seamEdges = {}) =>
        Len(segOut) = 1 /\ PatchFaces(1) = SegFaces

\* C14 amended: with an empty barrier set and an input mesh whose faces hang
\* together across edges shared by two faces, the segmenter returns exactly one
\* patch holding every face without a red vertex when these faces number at least
\* minFaces, and no patch otherwise.
C14_SinglePatch ==
    (segPc = "done" /\ segIn.seamEdges = {} /\ EdgeConnected) =>
        IF Cardinality(RedFreeFaces) >= segIn.minFaces
        THEN Len(segOut) = 1 /\ PatchFaces(1) = RedFreeFaces
        ELSE segOut = <<>>

\* the call had no barrier and returned the whole of a connected mesh of
\* several faces as its one patch
C14_Witness ==
    /\ segPc = "done" /\ segIn.seamEdges = {} /\ EdgeConnected
    /\ Len(segIn.mesh.faces) >= 3
    /\ Len(segOut) = 1 /\ PatchFaces(1) = SegFaces

\* C15: in the adjacency vote a boundary face is attached to the patch holding
\* the plurality of the faces adjacent to it across edges that are not in B, and
\* neighbours across a barrier edge give no vote.  Hence every boundary face
\* attached to a patch has in that patch a neighbour across an edge not in B.
C15_VotesNotAcrossBarrier ==
    segPc = "done" =>
        LET isl == InIslands
        IN \A p \in 1..Len(isl) :
              \A f \in Range(isl[p]) \cap collectBoundaryFaces(segIn.mesh, segIn.seamEdges) :
                 \E g \in Range(isl[p]) : AdjacentAcrossNonBarrier(f, g)

\* C16: every returned patch has at least minFaces faces, counted on the faces the
\* returned patch contains; and when every candidate (every island, or every
\* island after the kerf) has fewer than minFaces faces, the list returned is empty.
C16_MinFaces ==
    segPc = "done" =>
        /\ \A p \in 1..Len(segOut) :
              /\ Len(segOut[p].faces) >= segIn.minFaces
              /\ Cardinality(PatchFaces(p)) >= segIn.minFaces
        /\ LET isl == InIslands
           IN (\A i \in 1..Len(isl) :
                  Cardinality(Range(isl[i]) \cap RedFreeFaces) < segIn.minFaces)
                 => segOut = <<>>

\* a patch of exactly minFaces faces is returned while an island that passed the
\* first size test is dropped because the kerf left it fewer than minFaces faces
C16_Witness ==
    /\ segPc = "done" /\ segIn.minFaces >= 2
    /\ \E p \in 1..Len(segOut) : Len(segOut[p].faces) = segIn.minFaces
    /\ LET isl == InIslands
       IN \E i \in 1..Len(isl) :
             /\ Len(isl[i]) >= segIn.minFaces
             /\ Range(isl[i]) \cap RedFreeFaces # {}
             /\ Cardinality(Range(isl[i]) \cap RedFreeFaces) < segIn.minFaces

(***************************************************************************)
(* Specification of the weld step of segmentParts                          *)
(***************************************************************************)
White == [r |-> 10, g |-> 10, b |-> 10]
Red == [r |-> 10, g |-> 0, b |-> 0]
DarkRed == [r |-> 8, g |-> 1, b |-> 1]
Palette == {White, Red, DarkRed}

\* two triangles along one seam whose vertices are stored twice: vertex 4
\* coincides with vertex 2, vertex 3 lies within the tolerance of vertex 1
SplitQuad ==
    [vertices |-> <<<<0, 0, 0>>, <<5, 0, 0>>, <<0, 5, 0>>, <<5, 0, 1>>, <<0, 5, 0>>, <<5, 5, 0>>>>,
     faces |-> <<<<0, 1, 2>>, <<3, 5, 4>>>>]

WeldMeshes == {SplitQuad, Strip(2)}

WeldInit ==
    /\ \E m \in WeldMeshes : \E colors \in [1..Len(m.vertices) -> Palette] :
          weldIn = [vertices |-> m.vertices, faces |-> m.faces, vertexColors |-> colors]
    /\ weldOut = <<>>
    /\ weldPc = "input"
    /\ SegUnused /\ AppUnused /\ CutUnused /\ SeamUnused /\ PackUnused /\ RelaxUnused /\ MergeUnused /\ RepairUnused /\ BridgeUnused /\ UnfoldUnused

Weld ==
    /\ weldPc = "input"
    /\ weldOut' = WeldedMesh(weldIn)
    /\ weldPc' = "done"
    /\ UNCHANGED <<weldIn, segVars, appVars, cutVars, seamVars, packVars, relaxVars, mergeVars, repairVars, bridgeVars, unfoldVars>>

WeldNext == Weld

SpecWeld == WeldInit /\ [][WeldNext]_vars

IsRed(color) == IsRedColor(color, RED_THRESHOLD, GREEN_MAX, BLUE_MAX)

\* C9: welding preserves seam markers.  Whenever one of the vertices merged into
\* a welded vertex satisfies the red predicate, the welded vertex satisfies it.
C9_MarkersPreserved ==
    weldPc = "done" =>
        \A i \in 1..Len(weldIn.vertexColors) :
            IsRed(weldIn.vertexColors[i]) => IsRed(weldOut.vertexColors[weldOut.vertexMap[i] + 1])

(***************************************************************************)
(* Specification of a SeamExtractor driven through its public methods      *)
(***************************************************************************)
\* mesh data with the vertices of bright painted pure red, those of dim painted
\* dark red and the others white
Colored(m, bright, dim) ==
    [vertices |-> m.vertices, faces |-> m.faces,
     vertexColors |-> [k \in 1..Len(m.vertices) |->
                         IF k - 1 \in bright THEN Red
                         ELSE IF k - 1 \in dim THEN DarkRed ELSE White],
     hasVertexColors |-> TRUE]

Uncolored(m) ==
    [vertices |-> m.vertices, faces |-> m.faces, vertexColors |-> <<>>, hasVertexColors |-> FALSE]

SeamMeshes ==
    {Colored(Strip(3), {1}, {2, 3}), Colored(Strip(3), {1, 2}, {3}), Colored(Strip(2), {}, {1, 2}),
     Colored(Strip(4), {2, 3}, {4}), Colored(Fan(3), {0, 1}, {}), Colored(Tetra, {0}, {1}),
     Colored(Strip(2), {}, {}), Uncolored(Strip(2))}

\* red thresholds a caller passes (tenths): the application's 0.7 and a stricter 0.9
RedThresholds == {RED_THRESHOLD, 9}

\* no run made yet on the current mesh
NoRuns ==
    [stage |-> "none", redThreshold |-> 0,
     results |-> [t \in RedThresholds |-> [runs |-> 0, R |-> <<>>, B |-> {}]]]

SeamInit ==
    /\ extractor = NewExtractor
    /\ seamPc = "new"
    /\ seamRuns = NoRuns
    /\ SegUnused /\ AppUnused /\ CutUnused /\ WeldUnused /\ PackUnused /\ RelaxUnused /\ MergeUnused /\ RepairUnused /\ BridgeUnused /\ UnfoldUnused

SetMesh ==
    /\ \E meshData \in SeamMeshes :
          /\ extractor' = setMesh(extractor, meshData)
          /\ seamRuns' = [(IF meshData = extractor.meshData THEN seamRuns ELSE NoRuns)
                             EXCEPT !.stage = "set", !.redThreshold = 0]
    /\ seamPc' = "setMesh"
    /\ UNCHANGED <<segVars, appVars, cutVars, weldVars, packVars, relaxVars, mergeVars, repairVars, bridgeVars, unfoldVars>>

ExtractRedVertices ==
    /\ \E redThreshold \in RedThresholds :
          /\ extractor' = extractRedVertices(extractor, redThreshold, GREEN_MAX, BLUE_MAX)
          /\ seamRuns' = [seamRuns EXCEPT
                             !.stage = IF seamRuns.stage = "set" THEN "extracted" ELSE "none",
                             !.redThreshold = redThreshold]
    /\ seamPc' = "extract"
    /\ UNCHANGED <<segVars, appVars, cutVars, weldVars, packVars, relaxVars, mergeVars, repairVars, bridgeVars, unfoldVars>>

\* seamPc records whether the call completes an extraction (it follows extractRedVertices)
ConnectRedVertices ==
    /\ extractor' = connectRedVertices(extractor)
    /\ seamPc' = IF seamPc = "extract" THEN "extraction" ELSE "connect"
    /\ seamRuns' = IF seamRuns.stage = "extracted"
                    THEN [seamRuns EXCEPT
                            !.stage = "none",
                            !.results[seamRuns.redThreshold] =
                               [runs |-> IF @.runs < 2 THEN @.runs + 1 ELSE 2,
                                R |-> extractor'.redVertices,
                                B |-> getSeamEdgeSet(extractor')]]
                    ELSE [seamRuns EXCEPT !.stage = "none"]
    /\ UNCHANGED <<segVars, appVars, cutVars, weldVars, packVars, relaxVars, mergeVars, repairVars, bridgeVars, unfoldVars>>

SeamNext == SetMesh \/ ExtractRedVertices \/ ConnectRedVertices

SpecSeam == SeamInit /\ [][SeamNext]_vars

\* the mesh edges with both endpoints in the extractor's current red set
CurrentRedEdges == RedEdges(extractor.meshData.faces, Range(extractor.redVertices))

\* C8: after every completed extraction, repeated ones included, the barrier set
\* handed downstream is exactly the set of mesh edges with both endpoints in the
\* current red set.
C8_BarrierIsCurrent ==
    seamPc = "extraction" => getSeamEdgeSet(extractor) = CurrentRedEdges

\* C25: running the seam extractor (setMesh, extractRedVertices,
\* connectRedVertices) twice on the same coloured mesh with the same thresholds
\* yields the same red vertices R and the same barrier edges B: a run returns
\* what the last run on this mesh with these thresholds returned, whatever
\* was called in between.
C25_SameTwice ==
    [][(/\ seamRuns.stage = "extracted" /\ seamPc' = "extraction"
        /\ seamRuns.results[seamRuns.redThreshold].runs > 0)
          => /\ extractor'.redVertices = seamRuns.results[seamRuns.redThreshold].R
             /\ getSeamEdgeSet(extractor') = seamRuns.results[seamRuns.redThreshold].B]_vars

\* a second run with the stricter threshold has ended, a run with the other
\* threshold ended before it and returned other barrier edges
C25_Witness ==
    /\ seamPc = "extraction"
    /\ seamRuns.redThreshold = 9
    /\ seamRuns.results[9].runs = 2 /\ seamRuns.results[RED_THRESHOLD].runs > 0
    /\ seamRuns.results[9].B # seamRuns.results[RED_THRESHOLD].B

(***************************************************************************)
(* Specification of MeshScissor.cutAlongEdges on a patch                   *)
(***************************************************************************)
MaxSeamEdges == 2   \* most seam edges handed to the cutter

\* a whole mesh as a patch: every vertex and face maps to itself
AsPatch(m) ==
    [vertices |-> m.vertices, faces |-> m.faces,
     localToGlobal |-> [k \in 1..Len(m.vertices) |-> k - 1],
     originalFaceIndices |-> [k \in 1..Len(m.faces) |-> k]]

CutInit ==
    /\ \E m \in Meshes \ {EmptyMesh} :
         \E seamEdges \in SubsetsUpTo(MeshEdges(m.faces), MaxSeamEdges) \ {{}} :
            cutIn = [mesh |-> AsPatch(m), seamEdges |-> seamEdges]
    /\ cutOut = <<>>
    /\ cutPc = "input"
    /\ SegUnused /\ AppUnused /\ SeamUnused /\ WeldUnused /\ PackUnused /\ RelaxUnused /\ MergeUnused /\ RepairUnused /\ BridgeUnused /\ UnfoldUnused

CutAlongEdges ==
    /\ cutPc = "input"
    /\ cutOut' = cutAlongEdges(cutIn.mesh, cutIn.seamEdges)
    /\ cutPc' = "done"
    /\ UNCHANGED <<cutIn, segVars, appVars, seamVars, weldVars, packVars, relaxVars, mergeVars, repairVars, bridgeVars, unfoldVars>>

CutNext == CutAlongEdges

SpecCut == CutInit /\ [][CutNext]_vars

\* the edge of the input patch that edge k of the cut patch comes from
CutOrigin(k) == EdgeKey(cutOut.localToGlobal[k[1] + 1], cutOut.localToGlobal[k[2] + 1])

\* two faces of the cut patch share an edge that comes from seam edge e
HasTwin(e) ==
    \E f, g \in 1..Len(cutOut.faces) :
        /\ f # g
        /\ \E k \in Range(FaceEdges(cutOut.faces[f])) \cap Range(FaceEdges(cutOut.faces[g])) :
              CutOrigin(k) = e

\* C5: after the internal seam cut no seam edge has a twin: no two faces of the
\* resulting patch both reference the same pair of endpoint indices of that edge.
C5_NoTwin ==
    cutPc = "done" => \A e \in cutIn.seamEdges : ~HasTwin(e)

(***************************************************************************)
(* Specification of the application: segmentParts and flattenMesh on a     *)
(* loaded mesh.  minFaces stands for FloodSegmenter.MIN_FACES, scaled to   *)
(* the size of the meshes above.                                           *)
(***************************************************************************)
MaxFlattenRuns == 1   \* how many times the flatten command is issued

NoMesh == [vertices |-> <<>>, faces |-> <<>>, vertexColors |-> <<>>, hasVertexColors |-> FALSE]

NoFlattenedData == [valid |-> FALSE, pieces |-> <<>>]

EnvOk ==
    [tube |-> "ok", flatten |-> "ok", pca |-> "ok", lscm |-> "ok", bfs |-> "ok",
     physics |-> "ok", uncaught |-> FALSE]

\* what the callees of the loop body do in one pass: an exception ("throws"), a
\* list with a non-finite value in it ("nonfinite"), a rejected promise of
\* LSCMFlattener.flatten ("rejects"), an exception outside the inner try blocks
Environments ==
    {EnvOk,
     [EnvOk EXCEPT !.tube = "throws"],
     [EnvOk EXCEPT !.tube = "nonfinite"],
     [EnvOk EXCEPT !.flatten = "rejects"],
     [EnvOk EXCEPT !.pca = "nonfinite"],
     [EnvOk EXCEPT !.lscm = "throws"],
     [EnvOk EXCEPT !.lscm = "throws", !.bfs = "throws"],
     [EnvOk EXCEPT !.physics = "throws"],
     [EnvOk EXCEPT !.physics = "nonfinite"],
     [EnvOk EXCEPT !.uncaught = TRUE]}

\* vertices without any face
PointsOnly == [vertices |-> Strip(1).vertices, faces |-> <<>>]

\* the meshes loaded into the application
AppMeshes == Meshes \cup {TwoPrisms, PointsOnly}

\* the sets of vertices painted red: any set of at most MaxRed vertices, on the
\* two joined cylinders the joining vertex or none
RedChoices(m) ==
    IF m = TwoPrisms THEN {{}, {0}} ELSE SubsetsUpTo(VertexIds(m), MaxRed)

IdleFlat == [pc |-> "idle", i |-> 0, finalPatterns |-> <<>>, log |-> <<>>, runs |-> 0]

\* the application with a mesh loaded whose vertices of R are painted red
AppInit ==
    /\ \E m \in AppMeshes : \E R \in RedChoices(m) : \E k \in 1..MaxMinFaces :
          app = [meshData |-> [vertices |-> m.vertices, faces |-> m.faces,
                               vertexColors |-> Colored(m, R, {}).vertexColors],
                 weldedMesh |-> NoMesh,
                 seamExtractor |-> NewExtractor,
                 redVertices |-> <<>>,
                 redVerticesSet |-> {},
                 barrierEdges |-> {},
                 segmentedParts |-> <<>>,
                 pipelineStage |-> 0,
                 flattenedData |-> NoFlattenedData,
                 minFaces |-> k]
    /\ flat = IdleFlat
    /\ SegUnused /\ CutUnused /\ SeamUnused /\ WeldUnused /\ PackUnused /\ RelaxUnused /\ MergeUnused /\ RepairUnused /\ BridgeUnused /\ UnfoldUnused

\* the segment command
SegmentParts ==
    /\ flat.pc = "idle"
    /\ app.pipelineStage = 0
    /\ app' = segmentParts(app)
    /\ UNCHANGED <<flat, segVars, cutVars, seamVars, weldVars, packVars, relaxVars, mergeVars, repairVars, bridgeVars, unfoldVars>>

\* the flatten command up to the patch loop: segments first if that was not done
\* or left no part, and returns if there is still nothing segmented
FlattenStart ==
    /\ flat.pc = "idle"
    /\ flat.runs < MaxFlattenRuns
    /\ LET resegment == app.pipelineStage < 1 \/ Len(app.segmentedParts) = 0
       IN /\ app' = IF resegment THEN segmentParts(app) ELSE app
          /\ flat' = IF resegment /\ app'.pipelineStage < 1
                     THEN [flat EXCEPT !.runs = @ + 1]
                     ELSE [flat EXCEPT !.pc = "loop", !.i = 0, !.finalPatterns = <<>>,
                                       !.log = <<>>, !.runs = @ + 1]
    /\ UNCHANGED <<segVars, cutVars, seamVars, weldVars, packVars, relaxVars, mergeVars, repairVars, bridgeVars, unfoldVars>>

\* one pass of the patch loop; an exception raised outside the inner try blocks
\* ends the command in its catch block
FlattenPatch ==
    /\ flat.pc = "loop"
    /\ flat.i < Len(app.segmentedParts)
    /\ \E env \in Environments :
          LET pass == FlattenOnePatch(app.segmentedParts[flat.i + 1], flat.i,
                                      app.redVerticesSet, env)
          IN flat' = IF pass.uncaught
                     THEN [flat EXCEPT !.pc = "failed", !.log = Append(@, pass.log)]
                     ELSE [flat EXCEPT !.i = @ + 1,
                                       !.finalPatterns = Append(@, pass.pattern),
                                       !.log = Append(@, pass.log)]
    /\ UNCHANGED <<app, segVars, cutVars, seamVars, weldVars, packVars, relaxVars, mergeVars, repairVars, bridgeVars, unfoldVars>>

\* after the loop: the patterns become the result
FlattenFinish ==
    /\ flat.pc = "loop"
    /\ flat.i = Len(app.segmentedParts)
    /\ app' = [app EXCEPT !.flattenedData = [valid |-> TRUE, pieces |-> flat.finalPatterns],
                          !.pipelineStage = 2]
    /\ flat' = [flat EXCEPT !.pc = "done"]
    /\ UNCHANGED <<segVars, cutVars, seamVars, weldVars, packVars, relaxVars, mergeVars, repairVars, bridgeVars, unfoldVars>>

AppNext == SegmentParts \/ FlattenStart \/ FlattenPatch \/ FlattenFinish

SpecApp == AppInit /\ [][AppNext]_vars

\* the flatten command has ended, normally or in its catch block
FlattenEnded == flat.pc \in {"done", "failed"}

\* the mesh of an emitted pattern
PatternMesh(pattern) ==
    [vertices |-> [k \in 1..Len(pattern.localVertices) |-> pattern.localVertices[k].pos3D],
     faces |-> pattern.localFaces]

\* C4: cylinder repair.  Every patch with Euler characteristic 0 and at least two
\* boundary loops has Euler characteristic 1 after the cylinder surgery.
C4_CylinderRepaired ==
    \A k \in 1..Len(flat.log) : flat.log[k].wasCylinder => flat.log[k].eulerAfterSurgery = 1

\* C6: the core never throws across patch boundaries.  When the flatten command
\* has ended, every patch has been emitted in the result, and every patch whose
\* processing met a failure is flagged.
C6_FailureIsolated ==
    FlattenEnded =>
        /\ app.flattenedData.valid
        /\ Len(app.flattenedData.pieces) = Len(app.segmentedParts)
        /\ \A k \in 1..Len(app.flattenedData.pieces) :
              flat.log[k].failure => app.flattenedData.pieces[k].hasTopologyError

\* C7: every emitted patch that is not a topological disk (Euler characteristic
\* other than 1 when flattened) carries the topology-error flag.
C7_NonDiskFlagged ==
    \A k \in 1..Len(app.flattenedData.pieces) :
        computeEuler(PatternMesh(app.flattenedData.pieces[k])).euler # 1
            => app.flattenedData.pieces[k].hasTopologyError

\* the island (faces of the welded mesh, before the kerf) that part p was built from
PartIsland(p) ==
    LET isl == SegIslands(app.weldedMesh, app.barrierEdges, TRUE)
        j == CHOOSE j \in 1..Len(isl) : app.segmentedParts[p].originalFaceIndices[1] \in Range(isl[j])
    IN isl[j]

\* the part's recorded red set has two vertices and one of its edges has two red endpoints
NeedsInternalSurgery(p) ==
    /\ Cardinality(app.segmentedParts[p].internalRedVertices) >= 2
    /\ \E f \in Range(PartIsland(p)) : \E e \in Range(FaceEdges(app.weldedMesh.faces[f])) :
          e[1] \in app.redVerticesSet /\ e[2] \in app.redVerticesSet

\* C10: the orchestrator performs the internal-seam surgery on every patch whose
\* recorded set of original red vertices has at least two vertices and that has
\* an edge with both endpoints red.
C10_SurgeryTriggered ==
    \A k \in 1..Len(flat.log) : NeedsInternalSurgery(k) => flat.log[k].internalCut

\* C11: the initial embedding is chosen in the order tube (cylinder or elongated
\* patch only), LSCM, BFS fan, planar projection.  In particular, for a patch
\* that is not routed to tube unrolling and for which LSCM yields one finite
\* coordinate pair per vertex, the relaxer starts from the LSCM embedding.
C11_LscmFirst ==
    \A k \in 1..Len(flat.log) :
        ~flat.log[k].tubeRoute /\ flat.log[k].env.flatten = "ok"
            => flat.log[k].initialUV.strategy = "lscm"

C13_RelaxerFallback ==
    \A k \in 1..Len(flat.finalPatterns) :
        flat.log[k].env.physics = "nonfinite" /\ flat.log[k].vertexCount >= 3
            => flat.finalPatterns[k].uv = flat.log[k].initialUV

\* the original vertices of local face j of an emitted pattern, through the
\* pattern's local-to-global vertex map
PatternFaceGlobal(pattern, j) ==
    {pattern.localVertices[pattern.localFaces[j][i] + 1].global : i \in 1..3}

\* globalFaces[j] of the pattern names a face of the mesh the patches were taken
\* from (faces counted from 1), and local face j has the vertices of that face
FaceTraced(pattern, j) ==
    /\ j <= Len(pattern.globalFaces)
    /\ pattern.globalFaces[j] \in 1..Len(app.weldedMesh.faces)
    /\ PatternFaceGlobal(pattern, j) = FaceVerts(app.weldedMesh.faces[pattern.globalFaces[j]])

\* C17: for every emitted patch and every local face j, globalFaces[j] is the
\* index of the original face that local face j derives from: the vertices of
\* local face j, mapped through the patch's local-to-global vertex map, are the
\* vertices of that original face.  This holds after the internal-seam surgery
\* and after the cylinder surgery too.
C17_FacesTraced ==
    \A k \in 1..Len(flat.finalPatterns) :
        \A j \in 1..Len(flat.finalPatterns[k].localFaces) :
            FaceTraced(flat.finalPatterns[k], j)

\* the flood-fill components of the welded mesh, as the segmenter sorted them
FloodComponents ==
    floodFillExcludingBoundary(app.weldedMesh, buildFaceAdjacency(app.weldedMesh),
                               app.barrierEdges,
                               collectBoundaryFaces(app.weldedMesh, app.barrierEdges))

\* number of faces of the component of comp that holds the first face of part p
SizeIn(comp, p) ==
    LET j == CHOOSE j \in 1..Len(comp) :
                app.segmentedParts[p].originalFaceIndices[1] \in Range(comp[j])
    IN Len(comp[j])

ComponentSize(p) == SizeIn(FloodComponents, p)

\* the parts follow each other in descending size of their components
DescendingBy(comp) ==
    \A p \in 1..(Len(app.segmentedParts) - 1) : SizeIn(comp, p) >= SizeIn(comp, p + 1)

\* the positions of the vertices of a mesh
Positions(vertices) == {vertices[k] : k \in 1..Len(vertices)}

\* pattern k of the list is the flattening of part k: it carries index k (from 0)
\* and is made of vertices of that part
FlatteningOf(pattern, k) ==
    /\ pattern.pieceIndex = k - 1
    /\ Positions(PatternMesh(pattern).vertices) \subseteq Positions(app.segmentedParts[k].vertices)
    /\ Len(pattern.localFaces) <= Len(app.segmentedParts[k].faces)

\* the parts have been computed and no pattern has been emitted yet (the parts
\* do not change afterwards)
PartsFresh == app.pipelineStage >= 1 /\ flat.finalPatterns = <<>>

EmptyInput == app.meshData.vertices = <<>> \/ app.meshData.faces = <<>>

\* the flatten command has been issued and has returned
FlattenReturned == flat.runs >= 1 /\ flat.pc \in {"idle", "done", "failed"}

\* C19: when the input mesh has zero vertices or zero faces, running the pipeline
\* returns an empty result, a result with no patches, and raises no error.
C19_EmptyResult ==
    (EmptyInput /\ FlattenReturned) =>
        /\ flat.pc # "failed"
        /\ app.flattenedData.valid
        /\ app.flattenedData.pieces = <<>>

(***************************************************************************)
(* ClothFlattenerApp.arrangePatterns.  UV coordinates are numbers in       *)
(* hundredths.  A coordinate is a floating-point number: the result of an  *)
(* addition or subtraction is rounded to MantissaBits significant bits     *)
(* (nearest, ties to even).  MantissaBits stands for the 53 bits of a      *)
(* Number, scaled down with the magnitudes of the inputs so that a         *)
(* coordinate whose unit in the last place exceeds the padding can be      *)
(* written as an integer.                                                  *)
(***************************************************************************)
MantissaBits == 12

Abs(x) == IF x < 0 THEN -x ELSE x

\* unit in the last place of a number of magnitude m
RECURSIVE Ulp(_)
Ulp(m) == IF m < 2 ^ MantissaBits THEN 1 ELSE 2 * Ulp(m \div 2)

\* the magnitude m rounded to a multiple of its unit in the last place
RoundMag(m) ==
    LET u == Ulp(m)
        q == m \div u
        r == m % u
    IN IF 2 * r < u \/ (2 * r = u /\ q % 2 = 0) THEN q * u ELSE (q + 1) * u

\* the Number nearest to x
Fl(x) == IF x < 0 THEN -RoundMag(-x) ELSE RoundMag(x)

padding == 2      \* 0.02
maxWidth == 400   \* 4.0

\* the bounds createPatternFromSubMesh computes from a non-empty list of UVs
BoundsOf(uv) ==
    LET us == {uv[k].u : k \in 1..Len(uv)}
        vs == {uv[k].v : k \in 1..Len(uv)}
    IN [minU |-> CHOOSE x \in us : \A y \in us : x <= y,
        maxU |-> CHOOSE x \in us : \A y \in us : y <= x,
        minV |-> CHOOSE x \in vs : \A y \in vs : x <= y,
        maxV |-> CHOOSE x \in vs : \A y \in vs : y <= x]

\* mutant: a new row starts one padding above the row before it, whatever the
\* height of that row
PackOneFlatRows(st, pattern) ==
    LET b == pattern.bounds
        width == Fl(b.maxU - b.minU)
        height == Fl(b.maxV - b.minV)
        wrap == Fl(st.currentX + width) > maxWidth /\ st.currentX > 0
        currentX == IF wrap THEN 0 ELSE st.currentX
        currentY == IF wrap THEN Fl(st.currentY + padding) ELSE st.currentY
        rowHeight == IF wrap THEN 0 ELSE st.rowHeight
        offsetU == Fl(currentX - b.minU)
        offsetV == Fl(currentY - b.minV)
    IN [currentX |-> Fl(currentX + Fl(width + padding)),
        currentY |-> currentY,
        rowHeight |-> IF height > rowHeight THEN height ELSE rowHeight,
        placed |-> Append(st.placed,
                     [uv |-> [k \in 1..Len(pattern.uv) |->
                                [u |-> Fl(pattern.uv[k].u + offsetU),
                                 v |-> Fl(pattern.uv[k].v + offsetV)]],
                      bounds |-> [minU |-> Fl(b.minU + offsetU), maxU |-> Fl(b.maxU + offsetU),
                                  minV |-> Fl(b.minV + offsetV), maxV |-> Fl(b.maxV + offsetV)]])]

\* the body of the loop of arrangePatterns for one pattern
PackOne(st, pattern) ==
    LET b == pattern.bounds
        width == Fl(b.maxU - b.minU)
        height == Fl(b.maxV - b.minV)
        wrap == Fl(st.currentX + width) > maxWidth /\ st.currentX > 0
        currentX == IF wrap THEN 0 ELSE st.currentX
        currentY == IF wrap THEN Fl(st.currentY + Fl(st.rowHeight + padding)) ELSE st.currentY
        rowHeight == IF wrap THEN 0 ELSE st.rowHeight
        offsetU == Fl(currentX - b.minU)
        offsetV == Fl(currentY - b.minV)
    IN [currentX |-> Fl(currentX + Fl(width + padding)),
        currentY |-> currentY,
        rowHeight |-> IF height > rowHeight THEN height ELSE rowHeight,
        placed |-> Append(st.placed,
                     [uv |-> [k \in 1..Len(pattern.uv) |->
                                [u |-> Fl(pattern.uv[k].u + offsetU),
                                 v |-> Fl(pattern.uv[k].v + offsetV)]],
                      bounds |-> [minU |-> Fl(b.minU + offsetU), maxU |-> Fl(b.maxU + offsetU),
                                  minV |-> Fl(b.minV + offsetV), maxV |-> Fl(b.maxV + offsetV)]])]

\* the loop over the patterns, from pattern k on
RECURSIVE PackFrom(_, _, _)
PackFrom(patterns, k, st) ==
    IF k > Len(patterns) THEN st
    ELSE PackFrom(patterns, k + 1, PackOne(st, patterns[k]))

\* the patterns moved onto rows (the program moves them in place)
arrangePatterns(patterns) ==
    PackFrom(patterns, 1, [currentX |-> 0, currentY |-> 0, rowHeight |-> 0, placed |-> <<>>]).placed

(***************************************************************************)
(* Specification of the packer: one call on a drawn list of patterns       *)
(***************************************************************************)
MaxPatterns == 3   \* longest pattern list

\* a coordinate beyond the range in which every hundredth is a Number
Far == 2 ^ (MantissaBits + 5)

\* a pattern with the UVs of a triangle spanning the given box
BoxPattern(minU, maxU, minV, maxV) ==
    LET uv == <<[u |-> minU, v |-> minV], [u |-> maxU, v |-> minV], [u |-> minU, v |-> maxV]>>
    IN [uv |-> uv, bounds |-> BoundsOf(uv)]

\* a square, a wide and a tall patch, one wider than a row, one shrunk to a
\* point, and a square lying far from the origin
PackShapes ==
    {BoxPattern(0, 100, 0, 100), BoxPattern(-150, 200, 0, 50), BoxPattern(10, 60, -100, 200),
     BoxPattern(0, 450, -20, 30), BoxPattern(70, 70, 70, 70), BoxPattern(Far, Far + 128, 0, 100)}

RECURSIVE ListsUpTo(_, _)
ListsUpTo(S, n) ==
    IF n = 0 THEN {<<>>}
    ELSE LET shorter == ListsUpTo(S, n - 1)
         IN shorter \cup {Append(l, x) : l \in {m \in shorter : Len(m) = n - 1}, x \in S}

PackInit ==
    /\ packIn \in ListsUpTo(PackShapes, MaxPatterns)
    /\ packOut = <<>>
    /\ packPc = "input"
    /\ SegUnused /\ AppUnused /\ CutUnused /\ SeamUnused /\ WeldUnused /\ RelaxUnused /\ MergeUnused /\ RepairUnused /\ BridgeUnused /\ UnfoldUnused

ArrangePatterns ==
    /\ packPc = "input"
    /\ packOut' = arrangePatterns(packIn)
    /\ packPc' = "done"
    /\ UNCHANGED <<packIn, segVars, appVars, cutVars, seamVars, weldVars, relaxVars, mergeVars, repairVars, bridgeVars, unfoldVars>>

PackNext == ArrangePatterns

SpecPack == PackInit /\ [][PackNext]_vars

\* the axis-aligned bounding box of the UVs of a pattern
AABB(pattern) == BoundsOf(pattern.uv)

BoxesDisjoint(a, b) ==
    a.maxU < b.minU \/ b.maxU < a.minU \/ a.maxV < b.minV \/ b.maxV < a.minV

PairwiseDisjoint ==
    \A i, j \in 1..Len(packOut) : i # j => BoxesDisjoint(AABB(packOut[i]), AABB(packOut[j]))

\* C20 as stated: after the packer has run on patterns with finite bounds, the
\* axis-aligned bounding boxes of every two distinct packed patterns are disjoint.
C20_NoOverlapAsStated == packPc = "done" => PairwiseDisjoint

\* every coordinate of the box is within the range in which the sums and
\* differences the packer forms are exact
BoxExact(b) ==
    \A x \in {b.minU, b.maxU, b.minV, b.maxV} : 4 * Abs(x) <= 2 ^ MantissaBits

\* C20 amended: the same, for patterns whose bounds, before and after packing,
\* are small enough for the packer's additions and subtractions to be exact.
C20_NoOverlap ==
    (/\ packPc = "done"
     /\ \A k \in 1..Len(packIn) : BoxExact(packIn[k].bounds)
     /\ \A k \in 1..Len(packOut) : BoxExact(packOut[k].bounds))
        => PairwiseDisjoint

\* three patterns with exact bounds were packed, two side by side on the first
\* row and one on a second row
C20_Witness ==
    /\ packPc = "done" /\ Len(packOut) = 3
    /\ \A k \in 1..3 : BoxExact(packIn[k].bounds) /\ BoxExact(packOut[k].bounds)
    /\ packOut[1].bounds.minV = 0 /\ packOut[2].bounds.minV = 0
    /\ packOut[2].bounds.minU > 0
    /\ packOut[3].bounds.minV > 0

(***************************************************************************)
(* PhysicsFlattener.relaxDifferentiated.  Positions and forces are numbers *)
(* in hundredths, velocities in thousandths, the damping factor in         *)
(* two-hundredths.  The program computes in Numbers and stores positions,  *)
(* velocities and forces in Float32Arrays; the model computes exactly and  *)
(* rounds to its grid at each store.  A stiffness is a fraction            *)
(* <<numerator, denominator>>.                                             *)
(***************************************************************************)
\* a / b (b > 0) rounded to the nearest integer
RoundDiv(a, b) ==
    IF a >= 0 THEN (a + b \div 2) \div b ELSE -((b \div 2 - a) \div b)

RECURSIVE SqrtBetween(_, _, _)
SqrtBetween(n, lo, hi) ==
    IF hi - lo <= 1 THEN lo
    ELSE IF ((lo + hi) \div 2) * ((lo + hi) \div 2) <= n
         THEN SqrtBetween(n, (lo + hi) \div 2, hi)
         ELSE SqrtBetween(n, lo, (lo + hi) \div 2)

\* Math.sqrt(n) rounded to the nearest integer
SqrtRound(n) ==
    LET r == SqrtBetween(n, 0, 46340)
    IN IF n - r * r > r THEN r + 1 ELSE r

RECURSIVE SumSeq(_)
SumSeq(s) == IF s = <<>> THEN 0 ELSE Head(s) + SumSeq(Tail(s))

dtNum == 16        \* dt = 0.016
dtDen == 1000
DampUnit == 200    \* the damping factor 1.0

\* identifyBoundary: the edges that occur once, and their end points
identifyBoundary(faces) ==
    LET occ == Flatten([f \in 1..Len(faces) |-> FaceEdges(faces[f])])
        once == {e \in Range(occ) : CountOf(occ, e) = 1}
    IN [boundaryVerts |-> {e[1] : e \in once} \cup {e[2] : e \in once},
        boundaryEdges |-> once]

\* buildDifferentiatedConstraints: one spring per edge in the order the edges
\* are first met; an edge of rest length 0 gets none
buildDifferentiatedConstraints(vertices, faces, boundaryEdges, boundaryK, internalK) ==
    LET edges == SelectSeq(EdgeOrder(faces),
                           LAMBDA e : Dist2(vertices[e[1] + 1], vertices[e[2] + 1]) > 0)
    IN [k \in 1..Len(edges) |->
          [u |-> edges[k][1], v |-> edges[k][2],
           restLength |-> SqrtRound(10000 * Dist2(vertices[edges[k][1] + 1],
                                                  vertices[edges[k][2] + 1])),
           stiffness |-> IF edges[k] \in boundaryEdges THEN boundaryK ELSE internalK]]

\* the force <<fx, fy>> one spring puts on its end point u
SpringForce(uvs, c) ==
    LET dx == uvs[c.v + 1][1] - uvs[c.u + 1][1]
        dy == uvs[c.v + 1][2] - uvs[c.u + 1][2]
    IN IF SqrtRound(dx * dx + dy * dy) = 0 THEN <<0, 0>>
       ELSE <<RoundDiv(dx * c.stiffness[1] * (SqrtRound(dx * dx + dy * dy) - c.restLength),
                       SqrtRound(dx * dx + dy * dy) * c.stiffness[2]),
              RoundDiv(dy * c.stiffness[1] * (SqrtRound(dx * dx + dy * dy) - c.restLength),
                       SqrtRound(dx * dx + dy * dy) * c.stiffness[2])>>

\* forces[i * 2 + axis]: the sum over the springs at vertex i
ForceOn(i, axis, constraints, pulls) ==
    SumSeq([k \in 1..Len(constraints) |->
              IF constraints[k].u = i THEN pulls[k][axis]
              ELSE IF constraints[k].v = i THEN -pulls[k][axis] ELSE 0])

\* the velocity and position of one coordinate after the update of physicsStep
StepVelocity(vel, force, damping) ==
    RoundDiv((100 * vel + dtNum * force) * damping, 100 * DampUnit)

StepPosition(pos, vel) == RoundDiv(10 * dtDen * pos + dtNum * vel, 10 * dtDen)

\* physicsStep: the positions and velocities it leaves in the two arrays
PhysicsMove(st, pulls, boundaryVerts, pinBoundary, damping) ==
    LET n == Len(st.uvs)
        newVel == [i \in 1..n |->
                     IF pinBoundary /\ (i - 1) \in boundaryVerts THEN <<0, 0>>
                     ELSE [a \in 1..2 |->
                             StepVelocity(st.vel[i][a],
                                          ForceOn(i - 1, a, st.constraints, pulls), damping)]]
    IN [st EXCEPT !.vel = newVel,
                  !.uvs = [i \in 1..n |->
                             IF pinBoundary /\ (i - 1) \in boundaryVerts THEN st.uvs[i]
                             ELSE [a \in 1..2 |-> StepPosition(st.uvs[i][a], newVel[i][a])]]]

physicsStep(st, boundaryVerts, pinBoundary, damping) ==
    PhysicsMove(st, [k \in 1..Len(st.constraints) |-> SpringForce(st.uvs, st.constraints[k])],
                boundaryVerts, pinBoundary, damping)

\* the sum of one coordinate over the vertices (vertexCount times the centre)
CoordSum(uvs, axis) == SumSeq([i \in 1..Len(uvs) |-> uvs[i][axis]])

\* the translation by initialCenter - newCenter
CancelDrift(st, newSumU, newSumV) ==
    LET n == Len(st.uvs)
    IN [st EXCEPT !.uvs = [i \in 1..n |->
                             <<RoundDiv(n * st.uvs[i][1] + st.initialSum[1] - newSumU, n),
                               RoundDiv(n * st.uvs[i][2] + st.initialSum[2] - newSumV, n)>>]]

\* one pass of the loop of relaxDifferentiated
RelaxStep(st, moved, opt) ==
    LET anchored == IF opt.pinBoundary THEN moved
                    ELSE CancelDrift(moved, CoordSum(moved.uvs, 1), CoordSum(moved.uvs, 2))
    IN [anchored EXCEPT
          !.iter = st.iter + 1,
          !.currentDamping = IF 10 * st.iter > 6 * opt.iterations
                             THEN RoundDiv(st.currentDamping * opt.damping, DampUnit)
                             ELSE st.currentDamping]

\* the locals of relaxDifferentiated when its loop starts
RelaxLocals(subMesh, initialUV, opt) ==
    LET b == identifyBoundary(subMesh.faces)
    IN [uvs |-> initialUV,
        vel |-> [i \in 1..Len(initialUV) |-> <<0, 0>>],
        boundaryVerts |-> b.boundaryVerts,
        constraints |-> buildDifferentiatedConstraints(subMesh.vertices, subMesh.faces,
                            b.boundaryEdges, opt.boundaryStiffness, opt.internalStiffness),
        initialSum |-> <<CoordSum(initialUV, 1), CoordSum(initialUV, 2)>>,
        iter |-> 0,
        currentDamping |-> DampUnit]

(***************************************************************************)
(* Specification of the relaxer: one call, observed at every pass of its   *)
(* loop                                                                    *)
(***************************************************************************)
MaxIterFives == 2   \* most iterations of a relaxation, in fives

\* the vertices dropped onto the plane z = 0, in hundredths
DropZ(m) == [i \in 1..Len(m.vertices) |-> <<100 * m.vertices[i][1], 100 * m.vertices[i][2]>>]

\* the same with vertex 0 moved by two units along u
Displaced(m) == [DropZ(m) EXCEPT ![1] = <<DropZ(m)[1][1] + 200, DropZ(m)[1][2]>>]

\* the same shrunk to half its size
Shrunk(m) == [i \in 1..Len(m.vertices) |-> <<50 * m.vertices[i][1], 50 * m.vertices[i][2]>>]

RelaxMeshes == {Fan(3), Fan(4), Strip(2), Strip(3)}

RelaxOptions ==
    {[iterations |-> 5 * n, boundaryStiffness |-> <<50, 1>>, internalStiffness |-> k,
      pinBoundary |-> pin, damping |-> 199] :
        n \in 1..MaxIterFives, k \in {<<1, 5>>, <<50, 1>>}, pin \in BOOLEAN}

RelaxInputs ==
    UNION {{[subMesh |-> m, initialUV |-> uv, options |-> opt] :
               uv \in {DropZ(m), Displaced(m), Shrunk(m)}, opt \in RelaxOptions} :
           m \in RelaxMeshes}
    \cup {[subMesh |-> Strip(1), initialUV |-> <<>>,
           options |-> [iterations |-> 5, boundaryStiffness |-> <<50, 1>>,
                        internalStiffness |-> <<1, 5>>, pinBoundary |-> FALSE, damping |-> 199]]}

RelaxInit ==
    /\ relaxIn \in RelaxInputs
    /\ relax = [uvs |-> <<>>]
    /\ relaxPc = "input"
    /\ SegUnused /\ AppUnused /\ CutUnused /\ SeamUnused /\ WeldUnused /\ PackUnused /\ MergeUnused /\ RepairUnused /\ BridgeUnused /\ UnfoldUnused

\* entry of relaxDifferentiated: the input test and the set-up before the loop
RelaxStart ==
    /\ relaxPc = "input"
    /\ IF Len(relaxIn.subMesh.vertices) < 3
          \/ Len(relaxIn.initialUV) # Len(relaxIn.subMesh.vertices)
       THEN relax' = [uvs |-> relaxIn.initialUV] /\ relaxPc' = "done"
       ELSE /\ relax' = RelaxLocals(relaxIn.subMesh, relaxIn.initialUV, relaxIn.options)
            /\ relaxPc' = "loop"
    /\ UNCHANGED <<relaxIn, segVars, appVars, cutVars, seamVars, weldVars, packVars, mergeVars, repairVars, bridgeVars, unfoldVars>>

\* one pass of the loop
RelaxIterate ==
    /\ relaxPc = "loop"
    /\ relax.iter < relaxIn.options.iterations
    /\ relax' = RelaxStep(relax,
                          physicsStep(relax, relax.boundaryVerts,
                                      relaxIn.options.pinBoundary, relax.currentDamping),
                          relaxIn.options)
    /\ UNCHANGED <<relaxIn, relaxPc, segVars, appVars, cutVars, seamVars, weldVars, packVars, mergeVars, repairVars, bridgeVars, unfoldVars>>

\* the loop ends and the positions are returned
RelaxFinish ==
    /\ relaxPc = "loop"
    /\ relax.iter >= relaxIn.options.iterations
    /\ relaxPc' = "done"
    /\ UNCHANGED <<relaxIn, relax, segVars, appVars, cutVars, seamVars, weldVars, packVars, mergeVars, repairVars, bridgeVars, unfoldVars>>

RelaxNext == RelaxStart \/ RelaxIterate \/ RelaxFinish

SpecRelax == RelaxInit /\ [][RelaxNext]_vars

\* a pass of the loop that is not the first one
LaterPass == relaxPc = "loop" /\ relax.iter >= 1 /\ relax'.iter = relax.iter + 1

\* C21: in every pass of the relaxation loop after the first, with the boundary
\* pinned or not, the centre of the patch after the pass is within 1e-9 of its
\* centre before the pass.  The sums of the coordinates are whole hundredths, so
\* two centres that close have equal sums.
C21_DriftZero ==
    [][LaterPass => /\ CoordSum(relax'.uvs, 1) = CoordSum(relax.uvs, 1)
                    /\ CoordSum(relax'.uvs, 2) = CoordSum(relax.uvs, 2)]_vars

\* C22: in a relaxation of N passes the damping factor is multiplied by the
\* damping constant in exactly the last 0.4 N passes (passes 0.6 N .. N - 1,
\* counted from 0) and in no earlier pass.
C22_AnnealedDamping ==
    [][(relaxPc = "loop" /\ relax'.iter = relax.iter + 1)
          => ((relax'.currentDamping # relax.currentDamping)
                <=> 10 * relax.iter >= 6 * relaxIn.options.iterations)]_vars

(***************************************************************************)
(* Specification of the welder: mergeVertices called on a drawn mesh and   *)
(* tolerance, and again on its own result                                  *)
(***************************************************************************)
MaxWeldVerts == 4    \* most vertices of a welder input
MaxTolerance == 2    \* largest tolerance, in model units

\* points on both sides of the border between the hash cells -1 and 0
WeldPoints == {<<x, y, 0>> : x \in -1..1, y \in 0..1}

\* one face on the first three vertices, a second one when there is a fourth vertex
WeldFaces(n) == IF n <= 3 THEN <<<<0, 1, 2>>>> ELSE <<<<0, 1, 2>>, <<1, n - 1, 2>>>>

MergeInit ==
    /\ \E n \in 3..MaxWeldVerts : \E vs \in [1..n -> WeldPoints] : \E eps \in 1..MaxTolerance :
          mergeIn = [mesh |-> [vertices |-> vs, faces |-> WeldFaces(n)], tolerance |-> eps]
    /\ mergeOut = <<>>
    /\ mergeAgain = <<>>
    /\ mergePc = "input"
    /\ SegUnused /\ AppUnused /\ CutUnused /\ SeamUnused /\ WeldUnused /\ PackUnused /\ RelaxUnused /\ RepairUnused /\ BridgeUnused /\ UnfoldUnused

MergeVertices ==
    /\ mergePc = "input"
    /\ mergeOut' = mergeVertices(mergeIn.mesh, mergeIn.tolerance)
    /\ mergePc' = "once"
    /\ UNCHANGED <<mergeIn, mergeAgain, segVars, appVars, cutVars, seamVars, weldVars, packVars, relaxVars, repairVars, bridgeVars, unfoldVars>>

\* the welded mesh is welded again
MergeWelded ==
    /\ mergePc = "once"
    /\ mergeAgain' = mergeVertices(mergeOut, mergeIn.tolerance)
    /\ mergePc' = "twice"
    /\ UNCHANGED <<mergeIn, mergeOut, segVars, appVars, cutVars, seamVars, weldVars, packVars, relaxVars, repairVars, bridgeVars, unfoldVars>>

MergeNext == MergeVertices \/ MergeWelded

SpecMerge == MergeInit /\ [][MergeNext]_vars

\* C23: the vertices the welder returns hold no two distinct vertices within the
\* tolerance of each other, for any mesh and tolerance.
C23_NoTwoWithinTolerance ==
    mergePc # "input" =>
        \A i, j \in 1..Len(mergeOut.vertices) :
            i # j => Dist2(mergeOut.vertices[i], mergeOut.vertices[j])
                        > mergeIn.tolerance * mergeIn.tolerance

\* a vertex was merged into a vertex of another hash cell, and two vertices that
\* are both within twice the tolerance of each other were kept
C23_Witness ==
    /\ mergePc # "input"
    /\ \E i \in 1..Len(mergeIn.mesh.vertices) :
          CellOf(mergeIn.mesh.vertices[i], 10 * mergeIn.tolerance)
             # CellOf(mergeOut.vertices[mergeOut.vertexMap[i] + 1], 10 * mergeIn.tolerance)
    /\ \E i, j \in 1..Len(mergeOut.vertices) :
          /\ i # j
          /\ Dist2(mergeOut.vertices[i], mergeOut.vertices[j])
                <= 4 * mergeIn.tolerance * mergeIn.tolerance

\* C24: welding a welded mesh again with the same tolerance changes nothing: the
\* same vertices, the same faces, no vertex merged.
C24_WeldIdempotent ==
    mergePc = "twice" =>
        /\ mergeAgain.vertices = mergeOut.vertices
        /\ mergeAgain.faces = mergeOut.faces
        /\ mergeAgain.mergedCount = 0

\* the first weld merged vertices and dropped a face, and kept a face
C24_Witness ==
    /\ mergePc = "twice"
    /\ mergeOut.mergedCount > 0
    /\ Len(mergeOut.faces) = 1 /\ Len(mergeIn.mesh.faces) = 2
    /\ mergeAgain.faces = mergeOut.faces

(***************************************************************************)
(* Specification of TopologyRepair.repairAll on a drawn list of patches,   *)
(* observed at every pass of its loop                                      *)
(***************************************************************************)
MaxRepairPatches == 2   \* longest list of patches

\* the faces of an open cylinder with the rings (a, b, c) and (d, e, f)
RingFaces(a, b, c, d, e, f) ==
    <<<<a, b, d>>, <<b, e, d>>, <<b, c, e>>, <<c, f, e>>, <<c, a, f>>, <<a, d, f>>>>

\* a disk with two holes: two open cylinders that share the edge (0, 1), whose
\* end points are the two boundary vertices farthest apart
Pants ==
    [vertices |-> <<<<0, 50, 5>>, <<0, -50, 5>>, <<4, 0, 5>>, <<1, 3, 0>>, <<1, -3, 0>>,
                    <<4, 0, 0>>, <<-4, 0, 5>>, <<-1, -3, 0>>, <<-1, 3, 0>>, <<-4, 0, 0>>>>,
     faces |-> RingFaces(0, 1, 2, 3, 4, 5) \o RingFaces(1, 0, 6, 7, 8, 9)]

\* a disk with three holes: a third open cylinder on the edge (1, 2)
ThreeHoles ==
    [vertices |-> Pants.vertices \o <<<<6, -3, 5>>, <<3, -4, 0>>, <<5, -1, 0>>, <<6, -3, 0>>>>,
     faces |-> Pants.faces \o RingFaces(2, 1, 10, 11, 12, 13)]

RepairMeshes == {Strip(2), Fan(4), Prism(3), Tetra, Book, Pants, ThreeHoles}

\* values of minFaces: every mesh passes, some do, none does
RepairMinFaces == {1, 7, 19}

RepairInit ==
    /\ \E n \in 1..MaxRepairPatches : \E ms \in [1..n -> RepairMeshes] :
       \E minFaces \in RepairMinFaces :
          repairIn = [subMeshes |-> ms, minFaces |-> minFaces]
    /\ repairSt = [i |-> 1, results |-> <<>>]
    /\ repairPc = "loop"
    /\ SegUnused /\ AppUnused /\ CutUnused /\ SeamUnused /\ WeldUnused /\ PackUnused /\ RelaxUnused /\ MergeUnused /\ BridgeUnused /\ UnfoldUnused

\* one pass of the loop of repairAll
RepairPatchStep ==
    /\ repairPc = "loop"
    /\ repairSt.i <= Len(repairIn.subMeshes)
    /\ repairSt' = [i |-> repairSt.i + 1,
                    results |-> repairSt.results
                                  \o RepairOne(repairIn.subMeshes[repairSt.i],
                                               computeEuler(repairIn.subMeshes[repairSt.i]),
                                               repairIn.minFaces)]
    /\ UNCHANGED <<repairIn, repairPc, segVars, appVars, cutVars, seamVars, weldVars, packVars, relaxVars, mergeVars, bridgeVars, unfoldVars>>

\* the loop ends and the results are returned
RepairReturn ==
    /\ repairPc = "loop"
    /\ repairSt.i > Len(repairIn.subMeshes)
    /\ repairPc' = "done"
    /\ UNCHANGED <<repairIn, repairSt, segVars, appVars, cutVars, seamVars, weldVars, packVars, relaxVars, mergeVars, bridgeVars, unfoldVars>>

RepairNext == RepairPatchStep \/ RepairReturn

SpecRepair == RepairInit /\ [][RepairNext]_vars

\* the patch the next pass of the loop works on
CurrentPatch == repairIn.subMeshes[repairSt.i]

\* C26: a patch with Euler characteristic <= -1, whatever its boundary loops,
\* is complex: its repair is skipped and the patch is passed on unchanged.  The
\* pass of the loop that meets such a patch (one that is not filtered for its
\* size) adds exactly this patch to the results.
C26_ComplexPassedOn ==
    [][(/\ repairPc = "loop" /\ repairSt.i <= Len(repairIn.subMeshes)
        /\ repairSt'.i = repairSt.i + 1
        /\ Len(CurrentPatch.faces) >= repairIn.minFaces
        /\ computeEuler(CurrentPatch).euler <= -1)
          => repairSt'.results = Append(repairSt.results, CurrentPatch)]_vars

(***************************************************************************)
(* TopologyRepair.findShortestBridge on the two boundary loops of a tube   *)
(***************************************************************************)

\* the longest ring of a tube
MaxRing == 42

\* an open tube of 2n faces between two rings of n vertices, the rings being
\* convex polygons with their corners on a parabola
Tube(n) ==
    [vertices |-> [k \in 1..(2 * n) |->
                      LET j == (k - 1) % n
                      IN <<j, j * (n - 1 - j), IF k <= n THEN 5 ELSE 0>>],
     faces |-> Prism(n).faces]

\* repairCylinder has separated the boundary loops of the tube and calls
\* findShortestBridge on the first two
BridgeInit ==
    /\ \E n \in 3..MaxRing :
          LET mesh == Tube(n)
              loops == separateBoundaryLoops(computeEuler(mesh).boundaryEdges)
          IN bridgeIn = [mesh |-> mesh, loopA |-> loops[1], loopB |-> loops[2]]
    /\ bridgeSt = [sampleA |-> <<>>, sampleB |-> <<>>, bestBridge |-> NoBridge]
    /\ bridgePc = "call"
    /\ SegUnused /\ AppUnused /\ CutUnused /\ SeamUnused /\ WeldUnused /\ PackUnused
    /\ RelaxUnused /\ MergeUnused /\ RepairUnused /\ UnfoldUnused

\* const sampleA = this.sampleLoop(loopA, 20)
BridgeSampleA ==
    /\ bridgePc = "call"
    /\ bridgeSt' = [bridgeSt EXCEPT !.sampleA = sampleLoop(bridgeIn.loopA, SAMPLE_MAX)]
    /\ bridgePc' = "sampledA"
    /\ UNCHANGED <<bridgeIn, segVars, appVars, cutVars, seamVars, weldVars, packVars, relaxVars, mergeVars, repairVars, unfoldVars>>

\* const sampleB = this.sampleLoop(loopB, 20)
BridgeSampleB ==
    /\ bridgePc = "sampledA"
    /\ bridgeSt' = [bridgeSt EXCEPT !.sampleB = sampleLoop(bridgeIn.loopB, SAMPLE_MAX)]
    /\ bridgePc' = "sampledB"
    /\ UNCHANGED <<bridgeIn, segVars, appVars, cutVars, seamVars, weldVars, packVars, relaxVars, mergeVars, repairVars, unfoldVars>>

\* the search of the closest pair over the two samples, and the return
BridgeSearch ==
    /\ bridgePc = "sampledB"
    /\ bridgeSt' = [bridgeSt EXCEPT !.bestBridge =
                       findShortestBridge(bridgeIn.mesh, bridgeIn.loopA, bridgeIn.loopB)]
    /\ bridgePc' = "returned"
    /\ UNCHANGED <<bridgeIn, segVars, appVars, cutVars, seamVars, weldVars, packVars, relaxVars, mergeVars, repairVars, unfoldVars>>

BridgeNext == BridgeSampleA \/ BridgeSampleB \/ BridgeSearch

SpecBridge == BridgeInit /\ [][BridgeNext]_vars

\* C27: each of the two largest boundary loops is sub-sampled to at most 20
\* vertices before the closest pair is searched, whatever the length of the
\* loop.
C27_AtMostTwentySamples ==
    bridgePc \in {"sampledB", "returned"}
        => Len(bridgeSt.sampleA) <= SAMPLE_MAX /\ Len(bridgeSt.sampleB) <= SAMPLE_MAX

(***************************************************************************)
(* BFSUnfolder: the BFS geodesic fan                                       *)
(*                                                                         *)
(* The (u, v) coordinates are Numbers; the model keeps them in thousandths *)
(* and rounds each stored coordinate to the nearest thousandth.  Squared   *)
(* 3D lengths of the integer vertices are exact.                           *)
(***************************************************************************)

UvUnit == 1000

\* distance3D, in thousandths
distance3D(p1, p2) == SqrtRound(Dist2(p1, p2) * UvUnit * UvUnit)

\* sqrt(q / (4 dd)) in thousandths, 0 when q <= 0: the height of a triangle over
\* a side of squared length dd, q being 4 dd r1^2 - (r1^2 - r2^2 + dd)^2
HeightOver(q, dd) ==
    IF q <= 0 THEN 0 ELSE SqrtRound(RoundDiv(q * 10000, 4 * dd) * 100)

\* the seed face laid out: A at the origin, B on the u axis, C by the law of
\* cosines with sinA >= 0
PlaceSeed(vertices, face) ==
    LET ab == Dist2(vertices[face[1] + 1], vertices[face[2] + 1])
        ac == Dist2(vertices[face[1] + 1], vertices[face[3] + 1])
        bc == Dist2(vertices[face[2] + 1], vertices[face[3] + 1])
        lenAB == distance3D(vertices[face[1] + 1], vertices[face[2] + 1])
        lenAC == distance3D(vertices[face[1] + 1], vertices[face[3] + 1])
    IN [a |-> <<0, 0>>,
        b |-> <<lenAB, 0>>,
        c |-> IF ab > 0 /\ ac > 0
              THEN <<RoundDiv((ab + ac - bc) * UvUnit * UvUnit, 2 * lenAB),
                     HeightOver(4 * ab * ac - (ab + ac - bc) * (ab + ac - bc), ab)>>
              ELSE <<0, lenAC>>]

\* the two-circle intersection of unfoldTriangle: the target at distance r1 of
\* anchor u1 and r2 of anchor u2, on the left of u1 -> u2
Intersect(vertices, uvs, u1, u2, target) ==
    LET rr1 == Dist2(vertices[u1 + 1], vertices[target + 1])
        rr2 == Dist2(vertices[u2 + 1], vertices[target + 1])
        dd == Dist2(vertices[u1 + 1], vertices[u2 + 1])
        d == distance3D(vertices[u1 + 1], vertices[u2 + 1])
        h == HeightOver(4 * dd * rr1 - (rr1 - rr2 + dd) * (rr1 - rr2 + dd), dd)
        dx == uvs[u2 + 1][1] - uvs[u1 + 1][1]
        dy == uvs[u2 + 1][2] - uvs[u1 + 1][2]
    IN IF dd = 0 THEN uvs[u1 + 1]
       ELSE <<uvs[u1 + 1][1] + RoundDiv((rr1 - rr2 + dd) * dx, 2 * dd) + RoundDiv((0 - dy) * h, d),
              uvs[u1 + 1][2] + RoundDiv((rr1 - rr2 + dd) * dy, 2 * dd) + RoundDiv(dx * h, d)>>

\* the locals of compute after placing the target of a face
Placed(st, vertices, u1, u2, target) ==
    [st EXCEPT !.uvs[target + 1] = Intersect(vertices, st.uvs, u1, u2, target),
               !.visitedVerts = st.visitedVerts \cup {target},
               !.success = TRUE]

\* unfoldTriangle: the locals of compute after the call, success being its value
unfoldTriangle(st, face, vertices) ==
    LET va == face[1] \in st.visitedVerts
        vb == face[2] \in st.visitedVerts
        vc == face[3] \in st.visitedVerts
    IN IF va /\ vb /\ ~vc THEN Placed(st, vertices, face[1], face[2], face[3])
       ELSE IF vb /\ vc /\ ~va THEN Placed(st, vertices, face[2], face[3], face[1])
       ELSE IF vc /\ va /\ ~vb THEN Placed(st, vertices, face[3], face[1], face[2])
       ELSE [st EXCEPT !.success = va /\ vb /\ vc]

\* buildVertToFaces: the faces (0-based) that hold v, in face order, once for
\* each corner of the face that is v
buildVertToFaces(faces, vertCount) ==
    [v \in 0..(vertCount - 1) |->
        Flatten([f \in 1..Len(faces) |->
                   [i \in 1..Cardinality({j \in 1..3 : faces[f][j] = v}) |-> f - 1]])]

\* getNeighborFaces: the unvisited faces on the three edges of the face
getNeighborFaces(faceVerts, vertToFaces, visitedFaces, faces) ==
    AddAll(<<>>, Flatten([i \in 1..3 |->
        SelectSeq(vertToFaces[faceVerts[i]],
                  LAMBDA f : /\ f \in Range(vertToFaces[faceVerts[(i % 3) + 1]])
                             /\ f \notin visitedFaces)]))

\* findCenterFace: the first face whose centre is nearest to the centroid of
\* the vertices (distances compared exactly, scaled by 3 * vertex count)
CenterDist(vertices, face) ==
    LET n == Len(vertices)
        off(axis) == n * (vertices[face[1] + 1][axis] + vertices[face[2] + 1][axis]
                            + vertices[face[3] + 1][axis])
                     - 3 * SumSeq([k \in 1..n |-> vertices[k][axis]])
    IN off(1) * off(1) + off(2) * off(2) + off(3) * off(3)

findCenterFace(vertices, faces) ==
    (CHOOSE i \in 1..Len(faces) :
        /\ \A j \in 1..Len(faces) : CenterDist(vertices, faces[i]) <= CenterDist(vertices, faces[j])
        /\ \A j \in 1..(i - 1) : CenterDist(vertices, faces[j]) > CenterDist(vertices, faces[i])) - 1

\* a face that was unfolded is marked and queued
MarkUnfolded(st, f) ==
    IF st.success
    THEN [st EXCEPT !.visitedFaces = st.visitedFaces \cup {f}, !.queue = Append(st.queue, f)]
    ELSE st

\* the loop over the neighbours of the face taken from the queue
RECURSIVE UnfoldNeighbors(_, _, _, _)
UnfoldNeighbors(st, mesh, neighbors, k) ==
    IF k > Len(neighbors) THEN st
    ELSE IF neighbors[k] \in st.visitedFaces THEN UnfoldNeighbors(st, mesh, neighbors, k + 1)
    ELSE UnfoldNeighbors(MarkUnfolded(unfoldTriangle(st, mesh.faces[neighbors[k] + 1], mesh.vertices),
                                      neighbors[k]),
                         mesh, neighbors, k + 1)

\* estimateUV: the mean of the placed vertices that share a face with the
\* vertex, or its 3D position projected on the plane z = 0
estimateUV(vertIdx, vertices, faces, uvs, visitedVerts) ==
    LET mine == SelectSeq(faces, LAMBDA face : vertIdx \in FaceVerts(face))
        neighbors == SelectSeq(AddAll(<<>>, Flatten(mine)),
                               LAMBDA w : w # vertIdx /\ w \in visitedVerts)
    IN IF neighbors # <<>>
       THEN <<RoundDiv(SumSeq([k \in 1..Len(neighbors) |-> uvs[neighbors[k] + 1][1]]), Len(neighbors)),
              RoundDiv(SumSeq([k \in 1..Len(neighbors) |-> uvs[neighbors[k] + 1][2]]), Len(neighbors))>>
       ELSE <<vertices[vertIdx + 1][1] * UvUnit, vertices[vertIdx + 1][2] * UvUnit>>

\* createDefaultUVs: (0.1 i, 0)
createDefaultUVs(count) == [i \in 1..count |-> <<(i - 1) * (UvUnit \div 10), 0>>]

(***************************************************************************)
(* BFSUnfolder.compute on disks                                            *)
(***************************************************************************)

MaxCone == 6        \* most faces of a cone
MaxHeight == 6      \* greatest height of its apex

\* the closed fan with its centre vertex lifted to height h
Cone(n, h) == [Fan(n) EXCEPT !.vertices[1] = <<0, 0, h>>]

\* a regular hexagonal fan when n = 6; a pyramid without its base otherwise
UnfoldInit ==
    /\ \E n \in 3..MaxCone : \E h \in 1..MaxHeight : unfoldIn = Cone(n, h)
    /\ unfoldSt = [uvs |-> <<>>, visitedVerts |-> {}, visitedFaces |-> {}, queue |-> <<>>,
                   success |-> FALSE]
    /\ unfoldPc = "call"
    /\ SegUnused /\ AppUnused /\ CutUnused /\ SeamUnused /\ WeldUnused /\ PackUnused
    /\ RelaxUnused /\ MergeUnused /\ RepairUnused /\ BridgeUnused

\* steps 1 to 3 of compute: the seed face is laid out and queued; a mesh with
\* fewer than three vertices or no face gets the default coordinates at once
UnfoldSeed ==
    /\ unfoldPc = "call"
    /\ IF Len(unfoldIn.vertices) < 3 \/ Len(unfoldIn.faces) < 1
       THEN /\ unfoldSt' = [unfoldSt EXCEPT !.uvs = createDefaultUVs(Len(unfoldIn.vertices))]
            /\ unfoldPc' = "returned"
       ELSE /\ LET centerFaceIdx == findCenterFace(unfoldIn.vertices, unfoldIn.faces)
                   face == unfoldIn.faces[centerFaceIdx + 1]
                   seed == PlaceSeed(unfoldIn.vertices, face)
               IN unfoldSt' = [uvs |-> [i \in 1..Len(unfoldIn.vertices) |->
                                           IF i = face[3] + 1 THEN seed.c
                                           ELSE IF i = face[2] + 1 THEN seed.b
                                           ELSE <<0, 0>>],
                               visitedVerts |-> FaceVerts(face),
                               visitedFaces |-> {centerFaceIdx},
                               queue |-> <<centerFaceIdx>>,
                               success |-> TRUE]
            /\ unfoldPc' = "bfs"
    /\ UNCHANGED <<unfoldIn, segVars, appVars, cutVars, seamVars, weldVars, packVars, relaxVars, mergeVars, repairVars, bridgeVars>>

\* one pass of the while loop: a face leaves the queue and its neighbours are
\* unfolded
UnfoldFace ==
    /\ unfoldPc = "bfs"
    /\ unfoldSt.queue # <<>>
    /\ unfoldSt' = UnfoldNeighbors([unfoldSt EXCEPT !.queue = Tail(unfoldSt.queue)], unfoldIn,
                                   getNeighborFaces(unfoldIn.faces[Head(unfoldSt.queue) + 1],
                                                    buildVertToFaces(unfoldIn.faces, Len(unfoldIn.vertices)),
                                                    unfoldSt.visitedFaces, unfoldIn.faces), 1)
    /\ UNCHANGED <<unfoldIn, unfoldPc, segVars, appVars, cutVars, seamVars, weldVars, packVars, relaxVars, mergeVars, repairVars, bridgeVars>>

\* step 5 and the return: the vertices the BFS did not place are estimated
UnfoldReturn ==
    /\ unfoldPc = "bfs"
    /\ unfoldSt.queue = <<>>
    /\ unfoldSt' = [unfoldSt EXCEPT !.uvs =
                       [i \in 1..Len(unfoldIn.vertices) |->
                           IF (i - 1) \in unfoldSt.visitedVerts THEN unfoldSt.uvs[i]
                           ELSE estimateUV(i - 1, unfoldIn.vertices, unfoldIn.faces,
                                           unfoldSt.uvs, unfoldSt.visitedVerts)]]
    /\ unfoldPc' = "returned"
    /\ UNCHANGED <<unfoldIn, segVars, appVars, cutVars, seamVars, weldVars, packVars, relaxVars, mergeVars, repairVars, bridgeVars>>

UnfoldNext == UnfoldSeed \/ UnfoldFace \/ UnfoldReturn

SpecUnfold == UnfoldInit /\ [][UnfoldNext]_vars

\* twice the signed area of a face in the plane, in millionths
SignedArea2(uvs, face) ==
    (uvs[face[2] + 1][1] - uvs[face[1] + 1][1]) * (uvs[face[3] + 1][2] - uvs[face[1] + 1][2])
    - (uvs[face[3] + 1][1] - uvs[face[1] + 1][1]) * (uvs[face[2] + 1][2] - uvs[face[1] + 1][2])

\* C28: for a patch that is a disk, the embedding compute returns gives every
\* face a nonzero signed area, and the same sign to all faces.
C28_ValidEmbedding ==
    unfoldPc = "returned"
        => \/ \A f \in 1..Len(unfoldIn.faces) : SignedArea2(unfoldSt.uvs, unfoldIn.faces[f]) > 0
           \/ \A f \in 1..Len(unfoldIn.faces) : SignedArea2(unfoldSt.uvs, unfoldIn.faces[f]) < 0

(***************************************************************************)
(* ClothFlattenerApp: a session of load, segment, flatten and reset        *)
(***************************************************************************)

\* extractRedVerticesAndSeams: the extractor is set on the loaded mesh, the red
\* vertices are taken from it and connected when there are any
extractRedVerticesAndSeams(a) ==
    LET ex1 == extractRedVertices(setMesh(a.seamExtractor, a.meshData),
                                  RED_THRESHOLD, GREEN_MAX, BLUE_MAX)
    IN [a EXCEPT !.redVertices = ex1.redVertices,
                 !.seamExtractor = IF Len(ex1.redVertices) > 0 THEN connectRedVertices(ex1)
                                   ELSE ex1]

\* loadOBJFile: the parsed file becomes meshData; seams are extracted when the
\* file has vertex colours (settings.autoExtractSeams is true)
loadOBJFile(a, parsed) ==
    IF parsed.hasVertexColors
    THEN extractRedVerticesAndSeams([a EXCEPT !.meshData = parsed])
    ELSE [a EXCEPT !.meshData = parsed]

\* resetScene: mesh, result, stage and parts are cleared
resetScene(a) ==
    [a EXCEPT !.meshData = NoMesh,
              !.flattenedData = NoFlattenedData,
              !.pipelineStage = 0,
              !.segmentedParts = <<>>]

\* the files of a session: strips of one to three faces without red vertices,
\* and a strip of four faces cut in two by the red vertices 2 and 3
SessionFiles ==
    {Colored(Strip(1), {}, {}), Colored(Strip(2), {}, {}), Colored(Strip(3), {}, {}),
     Colored(Strip(4), {2, 3}, {})}

\* the application as constructed: no mesh loaded
SessionInit ==
    /\ app = [meshData |-> NoMesh,
              weldedMesh |-> NoMesh,
              seamExtractor |-> NewExtractor,
              redVertices |-> <<>>,
              redVerticesSet |-> {},
              barrierEdges |-> {},
              segmentedParts |-> <<>>,
              pipelineStage |-> 0,
              flattenedData |-> NoFlattenedData,
              minFaces |-> 1]
    /\ flat = IdleFlat
    /\ SegUnused /\ CutUnused /\ SeamUnused /\ WeldUnused /\ PackUnused /\ RelaxUnused
    /\ MergeUnused /\ RepairUnused /\ BridgeUnused /\ UnfoldUnused

\* a file is chosen in the file input
LoadOBJFile ==
    /\ flat.pc = "idle"
    /\ \E parsed \in SessionFiles : app' = loadOBJFile(app, parsed)
    /\ UNCHANGED <<flat, segVars, cutVars, seamVars, weldVars, packVars, relaxVars, mergeVars, repairVars, bridgeVars, unfoldVars>>

\* the segment command, at any stage of the pipeline
SegmentAgain ==
    /\ flat.pc = "idle"
    /\ app' = segmentParts(app)
    /\ UNCHANGED <<flat, segVars, cutVars, seamVars, weldVars, packVars, relaxVars, mergeVars, repairVars, bridgeVars, unfoldVars>>

\* the reset command
ResetScene ==
    /\ flat.pc = "idle"
    /\ app' = resetScene(app)
    /\ UNCHANGED <<flat, segVars, cutVars, seamVars, weldVars, packVars, relaxVars, mergeVars, repairVars, bridgeVars, unfoldVars>>

SessionNext ==
    LoadOBJFile \/ SegmentAgain \/ ResetScene \/ FlattenStart \/ FlattenPatch \/ FlattenFinish

SpecSession == SessionInit /\ [][SessionNext]_vars

\* the parts a segmentation of the mesh now loaded gives
FreshParts == segmentParts(app).segmentedParts

\* C29: flattening works on patches segmented from the mesh that is loaded: in
\* any sequence of load, segment, flatten and reset, the patches a flatten
\* request goes through are those of the current mesh, never those segmented
\* from a mesh loaded before it.
C29_FlattensCurrentMesh ==
    flat.pc = "loop" => app.segmentedParts = FreshParts

\* the patch of the last pass of the loop as it enters the topology check: the
\* segmented part after the processing of its internal seams
BeforeSurgery ==
    LET subMesh0 == app.segmentedParts[Len(flat.log)]
    IN IF hasInternalRedSeams(subMesh0, app.redVerticesSet)
       THEN processInternalSeams(subMesh0, app.redVerticesSet)
       ELSE subMesh0

\* C30: the cylinder surgery of flattenMesh discards no face: a patch that
\* triggers the cylinder cut goes on to the initial unfolding with as many faces
\* as it had before the cut.
C30_SurgeryKeepsFaces ==
    (Len(flat.log) > 0 /\ flat.log[Len(flat.log)].wasCylinder)
        => flat.log[Len(flat.log)].facesAfterSurgery = Len(BeforeSurgery.faces)

====
